---- MODULE Spec2Model ----
(***************************************************************************)
(* Tanks and Taps (TNT): a model of the tank database object, the tank     *)
(* validator, the deposit path matcher, the tank create/update/delete      *)
(* evaluators, the tap flow evaluator and the sink flow processor.         *)
(*                                                                         *)
(* Optional values are sequences of length at most one: None is <<>> and   *)
(* Some(x) is <<x>>.  A failed FC_ASSERT / thrown exception is modelled as *)
(* the operation ending with ok = FALSE and the database left as it was    *)
(* (the host chain's undo session).                                        *)
(***************************************************************************)
EXTENDS Integers, Sequences, FiniteSets, TLC

(***************************************************************************)
(* Bounds of the model                                                     *)
(***************************************************************************)
\* Number of tanks that may ever be created (tank ids are never reused)
MaxTanks == 2
\* Largest tap_counter / attachment_counter an update may grow a tank to
MaxTaps == 2
MaxAttachments == 2
\* Number of operations that may change the database in one behaviour
MaxOps == 3
\* Core asset Alice holds initially, largest deposit_amount, and the range
\* -MaxDelta .. MaxRefund of the deposit_delta an operation may name
InitialCore == 4
MaxDeposit == 3
MaxDelta == 2
MaxRefund == 1
\* Largest amount one funding or tap-open request may name
MaxAmount == 2
\* Largest tap_open_count a tap_open_operation may name
MaxTapOpenCount == 2
\* The chain parameter max_sink_chain_length
max_sink_chain_length == 2

(***************************************************************************)
(* Primitive values                                                        *)
(***************************************************************************)
None == <<>>
Some(x) == <<x>>
IsSome(o) == o # <<>>
Val(o) == o[1]

\* Accounts; CoreAsset is asset_id_type(), the asset deposits are paid in
Alice == 1
Bob == 2
Accounts == {Alice, Bob}
CoreAsset == 0
AssetX == 1

\* Authorities are opaque values; TrivialAuth stands for an authority with
\* weight_threshold = 0 (the default-constructed authority)
TrivialAuth == 0
AuthA == 1
AuthB == 2

TankIds == 1..MaxTanks

(***************************************************************************)
(* Sinks (types.hpp)                                                       *)
(***************************************************************************)
same_tank == [kind |-> "same_tank", tank |-> None, id |-> 0]
AccountSink(a) == [kind |-> "account", tank |-> None, id |-> a]
TankSink(t) == [kind |-> "tank", tank |-> None, id |-> t]
\* attachment_id_type{tank_id, attachment_id}
AttachmentSink(t, i) == [kind |-> "attachment", tank |-> t, id |-> i]

is_terminal_sink(s) == s.kind # "attachment"

\* sink_eq: q.left_current and q.right_current are the two sides' current tanks
sink_eq(left_current, right_current, left, right) ==
    CASE left.kind = "attachment" /\ right.kind = "attachment" ->
            IF left.id # right.id THEN FALSE
            ELSE IF IsSome(left.tank) /\ IsSome(right.tank) THEN Val(left.tank) = Val(right.tank)
            ELSE IF IsSome(left.tank) /\ IsSome(right_current) THEN Val(left.tank) = Val(right_current)
            ELSE IF IsSome(left_current) /\ IsSome(right.tank) THEN Val(left_current) = Val(right.tank)
            ELSE FALSE
      [] left.kind = "same_tank" /\ right.kind = "same_tank" ->
            IsSome(left_current) /\ IsSome(right_current) /\ Val(left_current) = Val(right_current)
      [] left.kind = "tank" /\ right.kind = "same_tank" ->
            IsSome(right_current) /\ left.id = Val(right_current)
      [] left.kind = "same_tank" /\ right.kind = "tank" ->
            IsSome(left_current) /\ Val(left_current) = right.id
      [] left.kind = right.kind /\ left.kind \in {"account", "tank"} -> left.id = right.id
      [] OTHER -> FALSE

(***************************************************************************)
(* Flow limits (types.hpp)                                                 *)
(***************************************************************************)
unlimited_flow == [unlimited |-> TRUE, amount |-> 0]
Amount(n) == [unlimited |-> FALSE, amount |-> n]

\* An operator< that looks at the right operand first
flow_lt_right_first(a, b) ==
    IF b.unlimited THEN TRUE
    ELSE IF a.unlimited THEN FALSE
    ELSE a.amount < b.amount

\* operator< and operator<= on asset_flow_limit
flow_lt(a, b) ==
    IF a.unlimited THEN FALSE
    ELSE IF b.unlimited THEN TRUE
    ELSE a.amount < b.amount

flow_le(a, b) ==
    IF b.unlimited THEN TRUE
    ELSE IF a.unlimited THEN FALSE
    ELSE a.amount <= b.amount

(***************************************************************************)
(* Tank attachments and tap requirements (types.hpp)                       *)
(***************************************************************************)
asset_flow_meter(asset, dest) ==
    [type |-> "asset_flow_meter", asset_type |-> asset, destination_sink |-> dest]
deposit_source_restrictor(paths) ==
    [type |-> "deposit_source_restrictor", legal_deposit_paths |-> paths]
tap_opener(tap, amount, dest, asset) ==
    [type |-> "tap_opener", tap_index |-> tap, release_amount |-> amount,
     destination_sink |-> dest, asset_type |-> asset]
attachment_connect_authority(auth, att) ==
    [type |-> "attachment_connect_authority", connect_authority |-> auth, attachment_id |-> att]

\* receives_asset(): the asset type received, or None
receives_asset(att) ==
    IF att.type \in {"asset_flow_meter", "tap_opener"} THEN Some(att.asset_type) ELSE None

\* deposit path pattern elements: a sink, or a wildcard_sink{repeatable}
PSink(s) == [wildcard |-> FALSE, repeatable |-> FALSE, sink |-> s]
Wildcard(rep) == [wildcard |-> TRUE, repeatable |-> rep, sink |-> same_tank]

immediate_flow_limit(limit) == [type |-> "immediate_flow_limit", limit |-> limit]
minimum_tank_level(level) == [type |-> "minimum_tank_level", minimum_level |-> level]
periodic_flow_limit(period_duration_sec, limit) ==
    [type |-> "periodic_flow_limit", period_duration_sec |-> period_duration_sec,
     limit |-> limit]
cumulative_flow_limit(limit) == [type |-> "cumulative_flow_limit", limit |-> limit]
\* meter_id names a meter of the tank itself (tank_id unset)
exchange_requirement(meter_id, release_per_tick, tick_amount) ==
    [type |-> "exchange_requirement", meter_id |-> meter_id,
     release_per_tick |-> release_per_tick, tick_amount |-> tick_amount]
review_requirement(reviewer, request_limit) ==
    [type |-> "review_requirement", reviewer |-> reviewer, request_limit |-> request_limit]

\* struct tap
Tap(sink, open, connect, reqs, destructor) ==
    [connected_sink |-> sink, open_authority |-> open, connect_authority |-> connect,
     requirements |-> reqs, destructor_tap |-> destructor]

(***************************************************************************)
(* deposit_source_restrictor::get_matching_deposit_path (types.cpp)        *)
(*                                                                         *)
(* A deposit path is [origin |-> optional sink, sink_chain |-> sinks].     *)
(* Pattern and chain cursors are 1-based; Len + 1 is end().  The result is *)
(* [kind |-> "match", index |-> i] (i counted from 0 as in the code),      *)
(* "none", "throw" (a failed FC_ASSERT or a static_variant get of the      *)
(* wrong type) or "ub" (the pattern iterator was incremented past end()).  *)
(***************************************************************************)
MatchResult(k, i) == [kind |-> k, index |-> i]

\* The wildcard loop of lines 124-133: next_pattern_element stays bound to
\* the sink after the wildcard while both cursors keep advancing
RECURSIVE wildcard_scan(_, _, _, _, _, _)
wildcard_scan(pe, chain, ce, next, my_tank, cct) ==
    IF ce > Len(chain) THEN pe
    ELSE IF sink_eq(my_tank, cct, next, chain[ce])
         THEN wildcard_scan(pe + 1, chain, ce + 1, next, my_tank, cct)
         ELSE wildcard_scan(pe, chain, ce + 1, next, my_tank, cct)

\* The while loop of lines 103-146 and the final test of line 149
RECURSIVE match_chain(_, _, _, _, _, _)
match_chain(pattern, pe, chain, ce, my_tank, cct0) ==
    IF pe > Len(pattern) \/ ce > Len(chain)
    THEN IF pe = Len(pattern) + 1 /\ ce = Len(chain) + 1 THEN "match" ELSE "next"
    ELSE LET cct == IF chain[ce].kind = "attachment" /\ IsSome(chain[ce].tank)
                    THEN chain[ce].tank ELSE cct0
         IN  IF pattern[pe].wildcard
             THEN IF ~pattern[pe].repeatable
                  THEN match_chain(pattern, pe + 1, chain, ce + 1, my_tank, cct)
                  ELSE IF pe + 1 = Len(pattern) + 1 THEN "match"
                  ELSE IF pattern[pe + 1].wildcard THEN "throw"
                  ELSE LET end == wildcard_scan(pe + 1, chain, ce, pattern[pe + 1].sink,
                                                my_tank, cct)
                       IN  IF end > Len(pattern) + 1 THEN "ub"
                           ELSE IF end = Len(pattern) + 1 THEN "match" ELSE "next"
             ELSE IF sink_eq(my_tank, cct, pattern[pe].sink, chain[ce])
                  THEN match_chain(pattern, pe + 1, chain, ce + 1, my_tank, cct)
                  ELSE "next"

\* Lines 62-97: the pattern cursor after the origin is matched, 0 for `continue`
\* An origin step in which an unknown origin matches wildcards only
match_origin_known(pattern, origin, my_tank, cct) ==
    IF IsSome(origin)
    THEN IF pattern[1].wildcard
         THEN (IF pattern[1].repeatable THEN 1 ELSE 2)
         ELSE IF sink_eq(my_tank, cct, pattern[1].sink, Val(origin)) THEN 2 ELSE 0
    ELSE IF pattern[1].wildcard
         THEN (IF pattern[1].repeatable THEN 1 ELSE 2)
         ELSE 0

match_origin(pattern, origin, my_tank, cct) ==
    IF IsSome(origin)
    THEN IF pattern[1].wildcard
         THEN (IF pattern[1].repeatable THEN 1 ELSE 2)
         ELSE IF sink_eq(my_tank, cct, pattern[1].sink, Val(origin)) THEN 2 ELSE 0
    ELSE IF pattern[1].wildcard
         THEN (IF pattern[1].repeatable THEN 1 ELSE 2)
         ELSE IF pattern[1].sink.kind = "account" THEN 0 ELSE 2

\* One iteration of the for loop of line 55
match_pattern(pattern, path, my_tank) ==
    IF pattern = <<>> THEN "throw"
    ELSE IF IsSome(path.origin) /\ Val(path.origin).kind = "same_tank" THEN "throw"
    ELSE LET cct == IF IsSome(path.origin) /\ Val(path.origin).kind = "tank"
                    THEN Some(Val(path.origin).id) ELSE None
             pe == match_origin(pattern, path.origin, my_tank, cct)
         IN  IF pe = 0 THEN "next"
             ELSE IF path.sink_chain = <<>> THEN "throw"
             ELSE match_chain(pattern, pe, path.sink_chain, 1, my_tank, cct)

RECURSIVE match_from(_, _, _, _)
match_from(paths, i, path, my_tank) ==
    IF i > Len(paths) THEN MatchResult("none", 0)
    ELSE LET r == match_pattern(paths[i], path, my_tank)
         IN  IF r = "match" THEN MatchResult("match", i - 1)
             ELSE IF r = "next" THEN match_from(paths, i + 1, path, my_tank)
             ELSE MatchResult(r, 0)

get_matching_deposit_path(restrictor, path, my_tank) ==
    match_from(restrictor.legal_deposit_paths, 1, path, my_tank)

(***************************************************************************)
(* Tank schematics (types.hpp, types.cpp)                                  *)
(*                                                                         *)
(* taps and attachments are functions from indices to taps / attachments   *)
(* (flat_map<index_type, ...>).                                            *)
(***************************************************************************)
Assets == {CoreAsset, AssetX}

\* A vector as a map from the indices 0 .. size-1 the counters hand out
IndexMap(s) == [i \in 0..(Len(s) - 1) |-> s[i + 1]]

from_create_operation(contained_asset, taps, attachments) ==
    [taps |-> IndexMap(taps), tap_counter |-> Len(taps),
     attachments |-> IndexMap(attachments), attachment_counter |-> Len(attachments),
     asset_type |-> contained_asset]

Min(S) == CHOOSE x \in S : \A y \in S : x <= y

\* The first attachment, in index order, that is a deposit_source_restrictor
get_deposit_source_restrictor(schema) ==
    LET ids == {i \in DOMAIN schema.attachments :
                    schema.attachments[i].type = "deposit_source_restrictor"}
    IN  IF ids = {} THEN None ELSE Some(Min(ids))

Restrict(f, S) == [x \in S |-> f[x]]

\* tank_schematic::update_from_operation: removals, then replacements, then
\* additions under fresh ids taken from the counters
update_from_operation(schema, upd) ==
    LET keptTaps == Restrict(schema.taps, DOMAIN schema.taps \ upd.taps_to_remove)
        replTaps == [i \in DOMAIN keptTaps |->
                        IF i \in DOMAIN upd.taps_to_replace
                        THEN upd.taps_to_replace[i] ELSE keptTaps[i]]
        newTaps == [i \in DOMAIN replTaps \cup
                          (schema.tap_counter..(schema.tap_counter + Len(upd.taps_to_add) - 1)) |->
                        IF i \in DOMAIN replTaps THEN replTaps[i]
                        ELSE upd.taps_to_add[i - schema.tap_counter + 1]]
        keptAtts == Restrict(schema.attachments,
                             DOMAIN schema.attachments \ upd.attachments_to_remove)
        replAtts == [i \in DOMAIN keptAtts |->
                        IF i \in DOMAIN upd.attachments_to_replace
                        THEN upd.attachments_to_replace[i] ELSE keptAtts[i]]
        newAtts == [i \in DOMAIN replAtts \cup
                          (schema.attachment_counter..
                              (schema.attachment_counter + Len(upd.attachments_to_add) - 1)) |->
                        IF i \in DOMAIN replAtts THEN replAtts[i]
                        ELSE upd.attachments_to_add[i - schema.attachment_counter + 1]]
    IN  [taps |-> newTaps, tap_counter |-> schema.tap_counter + Len(upd.taps_to_add),
         attachments |-> newAtts,
         attachment_counter |-> schema.attachment_counter + Len(upd.attachments_to_add),
         asset_type |-> schema.asset_type]

(***************************************************************************)
(* Lookups (lookups.hpp).  `lookup` is what the tank_lookup_function does: *)
(* "works" (the database is consulted), "none" (no function: references to *)
(* other tanks are not checked) or "crash" (the call faults).  `db` maps the ids of the existing tanks  *)
(* to their objects, `self` is the optional id of the tank validated.      *)
(***************************************************************************)
lookup_tank(schema, lookup, db, id) ==
    IF ~IsSome(id) THEN [kind |-> "ref", schematic |-> schema]
    ELSE IF lookup = "none" THEN [kind |-> "need_lookup_function"]
    ELSE IF lookup = "crash" THEN [kind |-> "crash"]
    ELSE IF Val(id) \in DOMAIN db THEN [kind |-> "ref", schematic |-> db[Val(id)].schematic]
    ELSE [kind |-> "nonexistent_object"]

lookup_attachment(schema, lookup, db, att_id) ==
    LET t == lookup_tank(schema, lookup, db, att_id.tank)
    IN  IF t.kind # "ref" THEN t
        ELSE IF att_id.id \in DOMAIN t.schematic.attachments
        THEN [kind |-> "ref", attachment |-> t.schematic.attachments[att_id.id]]
        ELSE [kind |-> "nonexistent_object"]

get_attachment_asset(schema, lookup, db, att_id) ==
    LET a == lookup_attachment(schema, lookup, db, att_id)
    IN  IF a.kind # "ref" THEN a
        ELSE IF IsSome(receives_asset(a.attachment))
        THEN [kind |-> "asset", asset |-> Val(receives_asset(a.attachment))]
        ELSE [kind |-> "no_asset"]

get_sink_asset(schema, lookup, db, s) ==
    CASE s.kind = "account" -> [kind |-> "any_asset"]
      [] s.kind = "same_tank" -> [kind |-> "asset", asset |-> schema.asset_type]
      [] s.kind = "tank" ->
            LET t == lookup_tank(schema, lookup, db, Some(s.id))
            IN  IF t.kind # "ref" THEN t ELSE [kind |-> "asset", asset |-> t.schematic.asset_type]
      [] s.kind = "attachment" -> get_attachment_asset(schema, lookup, db, s)

(***************************************************************************)
(* Tank validator (validation.cpp).  Each operator is TRUE when the C++    *)
(* function returns and FALSE when it throws.                              *)
(***************************************************************************)
check_authority(auth) == auth # TrivialAuth

\* A checker that lets a deposit path pattern begin with any sink
checker_any_front(att) ==
    CASE att.type = "asset_flow_meter" -> TRUE
      [] att.type = "deposit_source_restrictor" ->
            /\ Len(att.legal_deposit_paths) > 0
            /\ \A p \in 1..Len(att.legal_deposit_paths) :
                  LET path == att.legal_deposit_paths[p]
                  IN  /\ Len(path) > 1
                      /\ ~path[Len(path)].wildcard =>
                            /\ is_terminal_sink(path[Len(path)].sink)
                            /\ path[Len(path)].sink.kind \in {"same_tank", "tank"}
                      /\ Len(path) < 3 => ~path[1].wildcard
                      /\ \A i \in 2..Len(path) :
                            (path[i].wildcard /\ path[i - 1].wildcard) =>
                                (~path[i].repeatable /\ ~path[i - 1].repeatable)
      [] att.type = "tap_opener" ->
            ~att.release_amount.unlimited => att.release_amount.amount > 0
      [] att.type = "attachment_connect_authority" -> check_authority(att.connect_authority)

internal_attachment_checker(att) ==
    CASE att.type = "asset_flow_meter" -> TRUE
      [] att.type = "deposit_source_restrictor" ->
            /\ Len(att.legal_deposit_paths) > 0
            /\ \A p \in 1..Len(att.legal_deposit_paths) :
                  LET path == att.legal_deposit_paths[p]
                  IN  /\ Len(path) > 1
                      /\ ~path[1].wildcard => is_terminal_sink(path[1].sink)
                      /\ ~path[Len(path)].wildcard =>
                            /\ is_terminal_sink(path[Len(path)].sink)
                            /\ path[Len(path)].sink.kind \in {"same_tank", "tank"}
                      /\ Len(path) < 3 => ~path[1].wildcard
                      /\ \A i \in 2..Len(path) :
                            (path[i].wildcard /\ path[i - 1].wildcard) =>
                                (~path[i].repeatable /\ ~path[i - 1].repeatable)
      [] att.type = "tap_opener" ->
            ~att.release_amount.unlimited => att.release_amount.amount > 0
      [] att.type = "attachment_connect_authority" -> check_authority(att.connect_authority)

internal_requirement_checker(req) ==
    CASE req.type = "immediate_flow_limit" -> req.limit > 0
      [] req.type = "minimum_tank_level" -> req.minimum_level > 0
      [] req.type = "periodic_flow_limit" -> req.limit > 0
      [] req.type = "review_requirement" -> check_authority(req.reviewer)
      [] req.type = "cumulative_flow_limit" -> req.limit > 0
      [] req.type = "exchange_requirement" -> req.tick_amount > 0 /\ req.release_per_tick > 0

\* The helper check_sink_asset of validate_attachment
check_sink_asset(schema, lookup, db, s, a) ==
    LET asset_result == get_sink_asset(schema, lookup, db, s)
    IN  /\ asset_result.kind # "no_asset"
        /\ asset_result.kind # "nonexistent_object"
        /\ asset_result.kind # "crash"
        /\ asset_result.kind = "asset" => asset_result.asset = a

\* A validator that does not look up what a tap opener and an attachment
\* connect authority refer to
validate_attachment_alone(schema, lookup, db, tank_id, attachment_id) ==
    /\ attachment_id \in DOMAIN schema.attachments
    /\ LET att == schema.attachments[attachment_id]
       IN  /\ internal_attachment_checker(att)
           /\ CASE att.type = "asset_flow_meter" ->
                      check_sink_asset(schema, lookup, db, att.destination_sink, att.asset_type)
                [] att.type = "deposit_source_restrictor" ->
                      \A p \in 1..Len(att.legal_deposit_paths) :
                          LET back == att.legal_deposit_paths[p][Len(att.legal_deposit_paths[p])]
                          IN  (~back.wildcard /\ back.sink.kind = "tank") =>
                                  (IsSome(tank_id) /\ back.sink.id = Val(tank_id))
                [] att.type = "tap_opener" ->
                      check_sink_asset(schema, lookup, db, att.destination_sink, att.asset_type)
                [] att.type = "attachment_connect_authority" -> TRUE

\* validate_attachment(index_type) for the validator of (schema, tank_id)
validate_attachment(schema, lookup, db, tank_id, attachment_id) ==
    /\ attachment_id \in DOMAIN schema.attachments
    /\ LET att == schema.attachments[attachment_id]
       IN  /\ internal_attachment_checker(att)
           /\ CASE att.type = "asset_flow_meter" ->
                      check_sink_asset(schema, lookup, db, att.destination_sink, att.asset_type)
                [] att.type = "deposit_source_restrictor" ->
                      \A p \in 1..Len(att.legal_deposit_paths) :
                          LET back == att.legal_deposit_paths[p][Len(att.legal_deposit_paths[p])]
                          IN  (~back.wildcard /\ back.sink.kind = "tank") =>
                                  (IsSome(tank_id) /\ back.sink.id = Val(tank_id))
                [] att.type = "tap_opener" ->
                      /\ att.tap_index \in DOMAIN schema.taps
                      /\ check_sink_asset(schema, lookup, db, att.destination_sink, att.asset_type)
                [] att.type = "attachment_connect_authority" ->
                      /\ att.attachment_id \in DOMAIN schema.attachments
                      /\ IsSome(receives_asset(schema.attachments[att.attachment_id]))

\* validate_tap_requirement(tap_id, requirement_index)
validate_tap_requirement(schema, tap_id, requirement_index) ==
    /\ tap_id \in DOMAIN schema.taps
    /\ Len(schema.taps[tap_id].requirements) > requirement_index
    /\ internal_requirement_checker(schema.taps[tap_id].requirements[requirement_index + 1])
    /\ LET req == schema.taps[tap_id].requirements[requirement_index + 1]
       IN  req.type = "exchange_requirement" =>
               \* check_meter on a meter of the tank itself
               /\ req.meter_id.id \in DOMAIN schema.attachments
               /\ schema.attachments[req.meter_id.id].type = "asset_flow_meter"

\* check_tap_connection: a tap without a connected sink passes; for a
\* connected tap every path through lines 348-416 ends in a throw (the
\* handled sink_chain case falls through to the "Unhandled sink chain result
\* type" exception of line 414)
check_tap_connection(schema, tap_id) ==
    /\ tap_id \in DOMAIN schema.taps
    /\ ~IsSome(schema.taps[tap_id].connected_sink)

\* validate_tap(index_type)
validate_tap(schema, tap_id) ==
    /\ tap_id \in DOMAIN schema.taps
    /\ IsSome(schema.taps[tap_id].connected_sink) \/ IsSome(schema.taps[tap_id].connect_authority)
    /\ \A i \in 0..(Len(schema.taps[tap_id].requirements) - 1) :
          validate_tap_requirement(schema, tap_id, i)
    /\ check_tap_connection(schema, tap_id)

\* A validator that takes any tap for an emergency tap
any_tap_accepted(etap) == TRUE

\* validate_emergency_tap(const tap&)
validate_emergency_tap(etap) ==
    /\ etap.requirements = <<>>
    /\ IsSome(etap.open_authority)
    /\ IsSome(etap.connect_authority)
    /\ etap.destructor_tap = TRUE

validate_tank(schema, lookup, db, tank_id) ==
    /\ \A a \in DOMAIN schema.attachments : validate_attachment(schema, lookup, db, tank_id, a)
    /\ 0 \in DOMAIN schema.taps
    /\ validate_emergency_tap(schema.taps[0])
    /\ \A t \in DOMAIN schema.taps : validate_tap(schema, t)

\* validate_tap(const tap&): the checks that need no schematic
validate_tap_internal(tap) ==
    /\ IsSome(tap.connected_sink) \/ IsSome(tap.connect_authority)
    /\ \A i \in 1..Len(tap.requirements) : internal_requirement_checker(tap.requirements[i])

\* The deposit charged for a schematic: one unit per tap and per attachment
calculate_deposit(schema) ==
    Cardinality(DOMAIN schema.taps) + Cardinality(DOMAIN schema.attachments)

(***************************************************************************)
(* Tank objects (object.hpp).  accessory_states maps accessory addresses   *)
(* to states; an address is an attachment id or a (tap id, requirement     *)
(* index) pair, tagged with the accessory's type as in                     *)
(* tank_accessory_address<Accessory>.                                      *)
(***************************************************************************)
attachment_address(type, attachment_ID) ==
    [accessory |-> "attachment", type |-> type, tap_ID |-> 0, index |-> attachment_ID]
requirement_address(type, tap_ID, requirement_index) ==
    [accessory |-> "requirement", type |-> type, tap_ID |-> tap_ID, index |-> requirement_index]

\* A tap_id_type used as a key of the accessory state map
tap_key(tap_ID) == [accessory |-> "tap_id", type |-> "tap_id", tap_ID |-> tap_ID, index |-> 0]

\* A comparator for which a tap id precedes the requirement addresses of its tap
address_lt_tap_first(a, b) ==
    CASE a.accessory = "attachment" /\ b.accessory = "attachment" -> a.index < b.index
      [] a.accessory = "requirement" /\ b.accessory = "requirement" ->
            \/ a.tap_ID < b.tap_ID
            \/ a.tap_ID = b.tap_ID /\ a.index < b.index
      [] a.accessory = "attachment" /\ b.accessory = "requirement" -> TRUE
      [] a.accessory = "requirement" /\ b.accessory = "attachment" -> FALSE
      [] a.accessory = "requirement" /\ b.accessory = "tap_id" -> a.tap_ID < b.tap_ID
      [] a.accessory = "attachment" /\ b.accessory = "tap_id" -> TRUE
      [] a.accessory = "tap_id" /\ b.accessory = "requirement" -> a.tap_ID <= b.tap_ID
      [] a.accessory = "tap_id" /\ b.accessory = "attachment" -> FALSE

\* impl::address_lt (object.hpp): the compare overloads, by the kinds of the
\* two operands; there is none for two tap ids
address_lt(a, b) ==
    CASE a.accessory = "attachment" /\ b.accessory = "attachment" -> a.index < b.index
      [] a.accessory = "requirement" /\ b.accessory = "requirement" ->
            \/ a.tap_ID < b.tap_ID
            \/ a.tap_ID = b.tap_ID /\ a.index < b.index
      [] a.accessory = "attachment" /\ b.accessory = "requirement" -> TRUE
      [] a.accessory = "requirement" /\ b.accessory = "attachment" -> FALSE
      [] a.accessory = "requirement" /\ b.accessory = "tap_id" -> a.tap_ID < b.tap_ID
      [] a.accessory = "attachment" /\ b.accessory = "tap_id" -> TRUE
      [] a.accessory = "tap_id" /\ b.accessory = "requirement" -> a.tap_ID < b.tap_ID
      [] a.accessory = "tap_id" /\ b.accessory = "attachment" -> FALSE

meter_state(metered_amount) ==
    [type |-> "asset_flow_meter", metered_amount |-> metered_amount]
review_state(request_counter) ==
    [type |-> "review_requirement", request_counter |-> request_counter]
periodic_state(period_num, amount_released) ==
    [type |-> "periodic_flow_limit", period_num |-> period_num,
     amount_released |-> amount_released]

\* creation_date is read by the tap flow evaluator and assigned nowhere: it
\* keeps the default time_point_sec(), the epoch
tank_object(schema, balance, deposit, states, restrictor) ==
    [schematic |-> schema, balance |-> balance, deposit |-> deposit,
     accessory_states |-> states, restrictor_ID |-> restrictor, creation_date |-> 0]

NoStates == [a \in {} |-> meter_state(0)]

\* tank_object::clear_attachment_state / clear_tap_state, called for each id
\* of `ids` as the loops of tank_update_evaluator::do_apply do
clear_attachment_state(states, ids) ==
    Restrict(states, {a \in DOMAIN states : ~(a.accessory = "attachment" /\ a.index \in ids)})
clear_tap_state(states, ids) ==
    Restrict(states, {a \in DOMAIN states : ~(a.accessory = "requirement" /\ a.tap_ID \in ids)})

\* A meter whose state is overwritten with the amount of the release
set_metered(states, attachment_ID, amount) ==
    LET addr == attachment_address("asset_flow_meter", attachment_ID)
    IN  [a \in DOMAIN states \cup {addr} |->
            IF a = addr THEN meter_state(amount) ELSE states[a]]

\* tank_object::get_or_create_state for a flow meter, then += amount
add_metered(states, attachment_ID, amount) ==
    LET addr == attachment_address("asset_flow_meter", attachment_ID)
        old == IF addr \in DOMAIN states THEN states[addr].metered_amount ELSE 0
    IN  [a \in DOMAIN states \cup {addr} |->
            IF a = addr THEN meter_state(old + amount) ELSE states[a]]

(***************************************************************************)
(* The inputs the operations are enumerated over                           *)
(***************************************************************************)
Authorities == {TrivialAuth, AuthA, AuthB}

\* A well-formed emergency tap whose open and connect authority is auth
EmergencyTap(auth) == Tap(None, Some(auth), Some(auth), <<>>, TRUE)
\* Ordinary taps behind a review requirement / an immediate flow limit
ReviewTap == Tap(None, Some(AuthB), Some(AuthB), <<review_requirement(AuthA, 1)>>, FALSE)
LimitTap == Tap(None, Some(AuthB), Some(AuthB), <<immediate_flow_limit(1)>>, FALSE)
\* Taps the validator must refuse: connected in the schematic, neither
\* connected nor connectable, and (as tap 0) lacking an open authority
ConnectedTap == Tap(Some(AccountSink(Bob)), Some(AuthB), None, <<>>, FALSE)
DanglingTap == Tap(None, Some(AuthB), None, <<>>, FALSE)
NoOpenTap == Tap(None, None, Some(AuthA), <<>>, TRUE)

MeterLoop == asset_flow_meter(AssetX, AttachmentSink(None, 0))
MeterToBob == asset_flow_meter(AssetX, AccountSink(Bob))
MeterHome == asset_flow_meter(AssetX, same_tank)
MeterToTank == asset_flow_meter(AssetX, TankSink(1))
\* A meter that releases into attachment 0 of tank 1
MeterToMeter == asset_flow_meter(AssetX, AttachmentSink(Some(1), 0))
Restrictor ==
    deposit_source_restrictor(<< <<PSink(AccountSink(Alice)), PSink(same_tank)>> >>)
BadRestrictor == deposit_source_restrictor(<< <<Wildcard(TRUE), PSink(same_tank)>> >>)
Opener == tap_opener(0, Amount(1), AccountSink(Bob), AssetX)
ConnectAuthority == attachment_connect_authority(AuthA, 0)

\* tank_create_operation contents: <<contained_asset, taps, attachments>>
CreateDesigns ==
    { <<AssetX, <<EmergencyTap(AuthA)>>, <<>> >>,
      <<AssetX, <<EmergencyTap(TrivialAuth)>>, <<>> >>,
      <<AssetX, <<EmergencyTap(AuthA), ReviewTap>>, <<MeterToBob>> >>,
      <<AssetX, <<EmergencyTap(AuthA), LimitTap>>, <<Opener>> >>,
      <<AssetX, <<EmergencyTap(AuthA)>>, <<MeterLoop, ConnectAuthority>> >>,
      <<AssetX, <<EmergencyTap(AuthA)>>, <<MeterHome, Restrictor>> >>,
      <<AssetX, <<EmergencyTap(AuthA)>>, <<MeterToTank>> >>,
      <<CoreAsset, <<EmergencyTap(AuthA)>>, <<MeterHome>> >>,
      <<AssetX, <<EmergencyTap(AuthA)>>, <<ConnectAuthority>> >>,
      <<AssetX, <<EmergencyTap(AuthA)>>, <<BadRestrictor>> >>,
      <<AssetX, <<>>, <<>> >>,
      <<AssetX, <<NoOpenTap>>, <<>> >>,
      <<AssetX, <<ReviewTap>>, <<>> >>,
      <<AssetX, <<EmergencyTap(AuthA), ConnectedTap>>, <<>> >>,
      <<AssetX, <<EmergencyTap(AuthA), DanglingTap>>, <<>> >> }

\* Taps and attachments a tank_update_operation may replace with or add
UpdateTaps == {EmergencyTap(AuthB), ReviewTap, DanglingTap}
UpdateAttachments == {MeterToBob, Restrictor}

NoTaps == [i \in {} |-> ReviewTap]
NoAttachments == [i \in {} |-> MeterToBob]
NoUpdate ==
    [taps_to_remove |-> {}, taps_to_replace |-> NoTaps, taps_to_add |-> <<>>,
     attachments_to_remove |-> {}, attachments_to_replace |-> NoAttachments,
     attachments_to_add |-> <<>>]

\* The updates enumerated for a tank: no change, or one removal, replacement
\* or addition of a tap or an attachment that exists / fits the bounds
UpdateChoices(schema) ==
    {NoUpdate}
    \cup {[NoUpdate EXCEPT !.taps_to_remove = {t}] : t \in DOMAIN schema.taps}
    \cup {[NoUpdate EXCEPT !.taps_to_replace = [i \in {t} |-> x]] :
              t \in DOMAIN schema.taps, x \in UpdateTaps}
    \cup {[NoUpdate EXCEPT !.taps_to_add = <<x>>] :
              x \in IF schema.tap_counter < MaxTaps THEN UpdateTaps ELSE {}}
    \cup {[NoUpdate EXCEPT !.attachments_to_remove = {a}] : a \in DOMAIN schema.attachments}
    \cup {[NoUpdate EXCEPT !.attachments_to_replace = [i \in {a} |-> y]] :
              a \in DOMAIN schema.attachments, y \in UpdateAttachments}
    \cup {[NoUpdate EXCEPT !.attachments_to_add = <<y>>] :
              y \in IF schema.attachment_counter < MaxAttachments
                    THEN UpdateAttachments ELSE {}}

\* What a call through the validator's tank_lookup_function reference does.
\* The evaluators hand the validator a temporary std::function, which is gone
\* when validate_tank() runs: the call may reach the database ("works"), find
\* an empty function ("none") or fault ("crash").  Schematics that refer to
\* no other tank never make the call.
refers_to_other_tank(schema) ==
    \E a \in DOMAIN schema.attachments :
        /\ schema.attachments[a].type \in {"asset_flow_meter", "tap_opener"}
        /\ \/ schema.attachments[a].destination_sink.kind = "tank"
           \/ /\ schema.attachments[a].destination_sink.kind = "attachment"
              /\ IsSome(schema.attachments[a].destination_sink.tank)

LookupOutcomes(schema) ==
    IF refers_to_other_tank(schema) THEN {"works", "none", "crash"} ELSE {"works"}

(***************************************************************************)
(* State                                                                   *)
(***************************************************************************)
VARIABLES
    tanks,      \* the tank objects of the database, by tank id
    next_id,    \* the id the next tank created gets
    balances,   \* account balances of the host chain, by account and asset
    flow,       \* the sink flow being processed, with its staged tanks
    ops,        \* number of operations that have changed the database
    last,       \* the last operation processed and whether it succeeded
    head_block_time,  \* the time of the head block, in seconds
    call        \* a direct call of a library function: its arguments, its result

vars == <<tanks, next_id, balances, flow, ops, last, head_block_time, call>>

\* No library function is being called directly
NoCall == [pc |-> "none"]

NoTanks == [t \in {} |-> 0]
Idle == [pc |-> "idle"]
\* `touched` tells whether the operation wrote accessory states, be it only
\* to the staged tanks of a flow that failed afterwards
\* cleared: the accessory addresses whose state the operation removed;
\* release: the origin and the returned sink path of a release_to_sink that
\* succeeded; funded: the invocations of the fund-account callback
Result(op, ok, tank, touched) ==
    [op |-> op, ok |-> ok, tank |-> tank, touched |-> touched, cleared |-> {},
     release |-> <<>>, funded |-> <<>>]

Init ==
    /\ tanks = NoTanks
    /\ next_id = 1
    /\ balances = [a \in Accounts |->
                      [x \in Assets |-> IF a = Alice
                                        THEN (IF x = CoreAsset THEN InitialCore ELSE MaxAmount)
                                        ELSE 0]]
    /\ flow = Idle
    /\ ops = 0
    /\ last = Result("none", TRUE, 0, FALSE)
    /\ head_block_time = 0
    /\ call = NoCall

\* database::adjust_balance of the host chain: refuses to overdraw
can_adjust_balance(bal, account, asset, delta) == bal[account][asset] + delta >= 0
adjust_balance(bal, account, asset, delta) ==
    [bal EXCEPT ![account][asset] = @ + delta]

\* An operation that was rejected, in validate() or by its evaluator: the
\* database stays as it was
Rejected(op, tank) ==
    /\ last' = Result("rejected", FALSE, 0, FALSE)
    /\ UNCHANGED <<tanks, next_id, balances, flow, ops>>

(***************************************************************************)
(* tank_create_operation (operations.cpp, evaluators.cpp)                  *)
(***************************************************************************)
tank_create_validate(o) ==
    /\ o.deposit_amount > 0
    /\ validate_tank(from_create_operation(o.contained_asset, o.taps, o.attachments),
                     "none", NoTanks, None)

tank_create_do_evaluate(db, bal, o, lookup) ==
    LET new_tank == from_create_operation(o.contained_asset, o.taps, o.attachments)
    IN  /\ bal[o.payer][CoreAsset] >= o.deposit_amount
        /\ validate_tank(new_tank, lookup, db, None)
        /\ calculate_deposit(new_tank) = o.deposit_amount

tank_create_do_apply(o) ==
    LET new_tank == from_create_operation(o.contained_asset, o.taps, o.attachments)
    IN  tank_object(new_tank, 0, o.deposit_amount, NoStates,
                    get_deposit_source_restrictor(new_tank))

TankCreate(o, lookup) ==
    /\ UNCHANGED <<head_block_time, call>>
    /\ flow.pc = "idle"
    /\ ops < MaxOps
    /\ next_id <= MaxTanks
    /\ IF tank_create_validate(o) /\ tank_create_do_evaluate(tanks, balances, o, lookup)
       THEN /\ tanks' = [t \in DOMAIN tanks \cup {next_id} |->
                            IF t = next_id THEN tank_create_do_apply(o) ELSE tanks[t]]
            /\ balances' = adjust_balance(balances, o.payer, CoreAsset, -o.deposit_amount)
            /\ next_id' = next_id + 1
            /\ ops' = ops + 1
            /\ last' = Result("TankCreate", TRUE, next_id, FALSE)
            /\ UNCHANGED flow
       ELSE Rejected("TankCreate", 0)

(***************************************************************************)
(* tank_update_operation (operations.cpp, evaluators.cpp)                  *)
(***************************************************************************)
tank_update_validate(o) ==
    /\ 0 \notin o.taps_to_remove
    /\ check_authority(o.update_authority)
    /\ 0 \in DOMAIN o.taps_to_replace => validate_emergency_tap(o.taps_to_replace[0])
    /\ \A t \in DOMAIN o.taps_to_replace : validate_tap_internal(o.taps_to_replace[t])
    /\ \A i \in 1..Len(o.taps_to_add) : validate_tap_internal(o.taps_to_add[i])
    /\ \A a \in DOMAIN o.attachments_to_replace :
          internal_attachment_checker(o.attachments_to_replace[a])
    /\ \A i \in 1..Len(o.attachments_to_add) :
          internal_attachment_checker(o.attachments_to_add[i])

\* A do_evaluate that compares the declared authority with tap 0 of the updated
\* schematic instead of tap 0 of the tank in the database
evaluate_against_updated_tap(db, bal, o, lookup) ==
    /\ o.tank_to_update \in DOMAIN db
    /\ LET old_tank == db[o.tank_to_update]
           updated_tank == update_from_operation(old_tank.schematic, o)
       IN  /\ o.update_authority = Val(updated_tank.taps[0].open_authority)
           /\ validate_tank(updated_tank, lookup, db, Some(o.tank_to_update))
           /\ old_tank.deposit - calculate_deposit(updated_tank) = o.deposit_delta
           /\ o.deposit_delta > 0 => bal[o.payer][CoreAsset] >= o.deposit_delta

tank_update_do_evaluate(db, bal, o, lookup) ==
    /\ o.tank_to_update \in DOMAIN db
    /\ LET old_tank == db[o.tank_to_update]
           updated_tank == update_from_operation(old_tank.schematic, o)
       IN  /\ o.update_authority = Val(old_tank.schematic.taps[0].open_authority)
           /\ validate_tank(updated_tank, lookup, db, Some(o.tank_to_update))
           /\ old_tank.deposit - calculate_deposit(updated_tank) = o.deposit_delta
           /\ o.deposit_delta > 0 => bal[o.payer][CoreAsset] >= o.deposit_delta

\* A do_apply that leaves the accessory states alone
apply_keeping_states(old_tank, o) ==
    tank_object(update_from_operation(old_tank.schematic, o), old_tank.balance,
                old_tank.deposit + o.deposit_delta, old_tank.accessory_states,
                old_tank.restrictor_ID)

\* An update that clears the states of attachments but not those of taps
apply_clearing_attachments(old_tank, o) ==
    tank_object(update_from_operation(old_tank.schematic, o), old_tank.balance,
                old_tank.deposit + o.deposit_delta,
                clear_attachment_state(old_tank.accessory_states,
                    o.attachments_to_remove \cup DOMAIN o.attachments_to_replace),
                old_tank.restrictor_ID)

tank_update_do_apply(old_tank, o) ==
    tank_object(update_from_operation(old_tank.schematic, o),
                old_tank.balance,
                old_tank.deposit + o.deposit_delta,
                clear_tap_state(
                    clear_attachment_state(old_tank.accessory_states,
                        o.attachments_to_remove \cup DOMAIN o.attachments_to_replace),
                    o.taps_to_remove \cup DOMAIN o.taps_to_replace),
                old_tank.restrictor_ID)

TankUpdate(o, lookup) ==
    /\ UNCHANGED <<head_block_time, call>>
    /\ flow.pc = "idle"
    /\ ops < MaxOps
    /\ IF /\ tank_update_validate(o)
          /\ tank_update_do_evaluate(tanks, balances, o, lookup)
          /\ can_adjust_balance(balances, o.payer, CoreAsset, o.deposit_delta)
       THEN /\ tanks' = [tanks EXCEPT ![o.tank_to_update] = tank_update_do_apply(@, o)]
            /\ balances' = adjust_balance(balances, o.payer, CoreAsset, o.deposit_delta)
            /\ ops' = ops + 1
            /\ last' = [Result("TankUpdate", TRUE, o.tank_to_update,
                               tanks'[o.tank_to_update].accessory_states
                                   # tanks[o.tank_to_update].accessory_states)
                            EXCEPT !.cleared =
                                DOMAIN tanks[o.tank_to_update].accessory_states
                                    \ DOMAIN tanks'[o.tank_to_update].accessory_states]
            /\ UNCHANGED <<next_id, flow>>
       ELSE Rejected("TankUpdate", o.tank_to_update)

(***************************************************************************)
(* tank_delete_operation (operations.cpp, evaluators.cpp)                  *)
(***************************************************************************)
tank_delete_validate(o) == check_authority(o.delete_authority)

tank_delete_do_evaluate(db, o) ==
    /\ o.tank_to_delete \in DOMAIN db
    /\ LET old_tank == db[o.tank_to_delete]
       IN  /\ o.delete_authority = Val(old_tank.schematic.taps[0].open_authority)
           /\ old_tank.balance = 0
           /\ o.deposit_claimed = old_tank.deposit

TankDelete(o) ==
    /\ UNCHANGED <<head_block_time, call>>
    /\ flow.pc = "idle"
    /\ ops < MaxOps
    /\ IF /\ tank_delete_validate(o)
          /\ tank_delete_do_evaluate(tanks, o)
          /\ can_adjust_balance(balances, o.payer, CoreAsset, o.deposit_claimed)
       THEN /\ tanks' = Restrict(tanks, DOMAIN tanks \ {o.tank_to_delete})
            /\ balances' = adjust_balance(balances, o.payer, CoreAsset, o.deposit_claimed)
            /\ ops' = ops + 1
            /\ last' = Result("TankDelete", TRUE, o.tank_to_delete, FALSE)
            /\ UNCHANGED <<next_id, flow>>
       ELSE Rejected("TankDelete", o.tank_to_delete)

(***************************************************************************)
(* Copy-on-write session over the database: reads see the staged tanks,    *)
(* writes go to the staged tanks, the database changes only on commit      *)
(***************************************************************************)
\* A commit that applies the staged balances and leaves the rest behind
commit_balances_only(db, staged) ==
    [t \in DOMAIN db |-> IF t \in DOMAIN staged
                         THEN [db[t] EXCEPT !.balance = staged[t].balance] ELSE db[t]]

\* commit: every tank the session holds a copy of is replaced by its copy
cow_commit(db, staged) ==
    [t \in DOMAIN db |-> IF t \in DOMAIN staged THEN staged[t] ELSE db[t]]

\* A read that always goes to the database
read_database(db, staged, t) == db[t]

\* A read through the wrapper: the session's copy if there is one, else the
\* database object
cow_read(db, staged, t) == IF t \in DOMAIN staged THEN staged[t] ELSE db[t]

\* A write through the wrapper: the first write makes the session's copy, the
\* written object replaces the copy
cow_write(db, staged, t, object) ==
    [u \in DOMAIN staged \cup {t} |-> IF u = t THEN object ELSE staged[u]]

\* A wrapper that hands out the database object itself for writing
written_through(db, t, object) == [db EXCEPT ![t] = object]

\* The database after a write through the wrapper: as before
db_after_write(db, t, object) == db
\* A session whose writes reach the database even when it is dropped
abort_keeping_staged(db, staged) == staged
cow_abort(db, staged) == db

\* is_authorized_asset of the host chain: Bob may not hold the core asset
is_authorized_asset(account, asset) == ~(account = Bob /\ asset = CoreAsset)

(***************************************************************************)
(* sink_flow_processor::release_to_sink (sink_flow_processor.cpp), one     *)
(* step per loop iteration.  It is entered by account_fund_sink_operation: *)
(* an account releases `amount` of `asset` into `sink`.                    *)
(***************************************************************************)
account_fund_sink_validate(o) == o.amount > 0

\* The flow failed: the exception unwinds, the session is dropped
ReleaseFail ==
    /\ tanks' = cow_abort(tanks, flow.cow)
    /\ flow' = Idle
    /\ last' = Result("rejected", FALSE, 0, flow.cow # tanks)
    /\ UNCHANGED <<next_id, balances, ops>>

\* Lines 93-97: the call, up to the loop
ReleaseBegin(o) ==
    /\ UNCHANGED <<head_block_time, call>>
    /\ flow.pc = "idle"
    /\ ops < MaxOps
    /\ IF account_fund_sink_validate(o) /\ balances[o.account][o.asset] >= o.amount
       THEN /\ flow' = [pc |-> "walk", origin |-> AccountSink(o.account), sink |-> o.sink,
                        asset |-> o.asset, amount |-> o.amount, sink_path |-> <<>>,
                        current_tank |-> None, cow |-> tanks, opened |-> <<>>]
            /\ UNCHANGED <<tanks, next_id, balances, ops, last>>
       ELSE Rejected("AccountFundSink", 0)

\* An inspector without the asset type assertions of lines 64 and 73
inspect_any_asset(tank, attachment_ID, asset, amount) ==
    IF attachment_ID \notin DOMAIN tank.schematic.attachments THEN [ok |-> FALSE]
    ELSE LET att == tank.schematic.attachments[attachment_ID]
         IN  CASE att.type = "asset_flow_meter" ->
                      [ok |-> TRUE, sink |-> att.destination_sink,
                       states |-> add_metered(tank.accessory_states, attachment_ID, amount),
                       open |-> <<>>]
               [] att.type = "tap_opener" ->
                      [ok |-> TRUE, sink |-> att.destination_sink,
                       states |-> tank.accessory_states,
                       open |-> << <<att.tap_index, att.release_amount>> >>]
               [] OTHER -> [ok |-> FALSE]

\* attachment_receive_inspector::inspect on the staged tank: the sink the
\* attachment releases to, the staged states after it, the tap it asks to open
\* (cbOpenTap is invoked with tap_id_type{tank.id, tap_index}; the caller puts
\* the tank's id in front of the index and the amount)
inspect(tank, attachment_ID, asset, amount) ==
    IF attachment_ID \notin DOMAIN tank.schematic.attachments THEN [ok |-> FALSE]
    ELSE LET att == tank.schematic.attachments[attachment_ID]
         IN  CASE att.type = "asset_flow_meter" ->
                      IF att.asset_type # asset THEN [ok |-> FALSE]
                      ELSE [ok |-> TRUE, sink |-> att.destination_sink,
                            states |-> add_metered(tank.accessory_states, attachment_ID, amount),
                            open |-> <<>>]
               [] att.type = "tap_opener" ->
                      IF att.asset_type # asset THEN [ok |-> FALSE]
                      ELSE [ok |-> TRUE, sink |-> att.destination_sink,
                            states |-> tank.accessory_states,
                            open |-> << <<att.tap_index, att.release_amount>> >>]
               [] OTHER -> [ok |-> FALSE]

\* A loop that never looks at the length of the path
chain_unbounded(sink_path) == TRUE

\* Line 102: FC_ASSERT(sink_path.size() < max_sinks)
chain_has_room(sink_path) == Len(sink_path) < max_sink_chain_length

\* Lines 100-118: one iteration of the loop over non-terminal sinks
ReleaseStep ==
    /\ UNCHANGED <<head_block_time, call>>
    /\ flow.pc = "walk"
    /\ ~is_terminal_sink(flow.sink)
    /\ LET current_tank == IF IsSome(flow.sink.tank) THEN flow.sink.tank ELSE flow.current_tank
           r == inspect(flow.cow[Val(current_tank)], flow.sink.id, flow.asset, flow.amount)
       IN  IF /\ chain_has_room(flow.sink_path)
              /\ IsSome(current_tank)
              /\ Val(current_tank) \in DOMAIN flow.cow
              /\ r.ok
           THEN /\ flow' = [flow EXCEPT
                               !.sink_path = Append(@, flow.sink),
                               !.current_tank = current_tank,
                               !.sink = r.sink,
                               !.cow = [@ EXCEPT ![Val(current_tank)].accessory_states = r.states],
                               !.opened = @ \o [i \in 1..Len(r.open) |->
                                                    <<Val(current_tank)>> \o r.open[i]]]
                /\ UNCHANGED <<tanks, next_id, balances, ops, last>>
           ELSE ReleaseFail

\* Lines 137-144: the destination tank's deposit source restrictor accepts the path
restrictor_accepts(dest_tank, dest_id, origin, sink_path) ==
    IF ~IsSome(dest_tank.restrictor_ID) THEN TRUE
    ELSE /\ Val(dest_tank.restrictor_ID) \in DOMAIN dest_tank.schematic.attachments
         /\ dest_tank.schematic.attachments[Val(dest_tank.restrictor_ID)].type
                = "deposit_source_restrictor"
         /\ get_matching_deposit_path(
                dest_tank.schematic.attachments[Val(dest_tank.restrictor_ID)],
                [origin |-> Some(origin), sink_chain |-> sink_path],
                Some(dest_id)).kind = "match"

\* Lines 120-158: deposit to the terminal sink, then the caller commits
\* The path handed to the fund-account callback (lines 154-156): a vector
\* constructed with sink_path.size() + 1 default sinks, to which the origin
\* and the sink path are appended; a default sink holds same_tank
fullPath(origin, sink_path) ==
    [i \in 1..(Len(sink_path) + 1) |-> same_tank] \o <<origin>> \o sink_path

ReleaseDeposit ==
    /\ UNCHANGED <<head_block_time, call>>
    /\ flow.pc = "walk"
    /\ is_terminal_sink(flow.sink)
    /\ LET sink == IF flow.sink.kind = "same_tank" /\ IsSome(flow.current_tank)
                   THEN TankSink(Val(flow.current_tank)) ELSE flow.sink
           sink_path == Append(flow.sink_path, sink)
           payer == flow.origin.id
           paid == adjust_balance(balances, payer, flow.asset, -flow.amount)
       IN  CASE sink.kind = "tank" /\ sink.id \in DOMAIN flow.cow
                    /\ flow.cow[sink.id].schematic.asset_type = flow.asset
                    /\ restrictor_accepts(flow.cow[sink.id], sink.id, flow.origin, sink_path) ->
                      /\ tanks' = cow_commit(tanks,
                                      [flow.cow EXCEPT ![sink.id].balance = @ + flow.amount])
                      /\ balances' = paid
                      /\ flow' = Idle
                      /\ ops' = ops + 1
                      /\ last' = [Result("AccountFundSink", TRUE, sink.id, flow.cow # tanks)
                                     EXCEPT !.release = <<[origin |-> flow.origin,
                                                           sink_path |-> sink_path]>>]
                      /\ UNCHANGED next_id
             [] sink.kind = "account" /\ is_authorized_asset(sink.id, flow.asset) ->
                      /\ tanks' = cow_commit(tanks, flow.cow)
                      /\ balances' = adjust_balance(paid, sink.id, flow.asset, flow.amount)
                      /\ flow' = Idle
                      /\ ops' = ops + 1
                      /\ last' = [Result("AccountFundSink", TRUE, 0, flow.cow # tanks)
                                     EXCEPT !.release = <<[origin |-> flow.origin,
                                                           sink_path |-> sink_path]>>,
                                            !.funded = <<[account |-> sink.id,
                                                          asset |-> flow.asset,
                                                          amount |-> flow.amount,
                                                          path |-> fullPath(flow.origin,
                                                                            sink_path)]>>]
                      /\ UNCHANGED next_id
             [] OTHER -> ReleaseFail

(***************************************************************************)
(* tap_connect_operation: the holder of the tap's connect authority        *)
(* connects the tap to a sink                                              *)
(***************************************************************************)
tap_connect_do_evaluate(db, o) ==
    /\ o.tank \in DOMAIN db
    /\ o.tap \in DOMAIN db[o.tank].schematic.taps
    /\ IsSome(db[o.tank].schematic.taps[o.tap].connect_authority)
    /\ o.connect_authority = Val(db[o.tank].schematic.taps[o.tap].connect_authority)

TapConnect(o) ==
    /\ UNCHANGED <<head_block_time, call>>
    /\ flow.pc = "idle"
    /\ ops < MaxOps
    /\ IF tap_connect_do_evaluate(tanks, o)
       THEN /\ tanks' = [tanks EXCEPT
                            ![o.tank].schematic.taps[o.tap].connected_sink = Some(o.new_sink)]
            /\ ops' = ops + 1
            /\ last' = Result("TapConnect", TRUE, o.tank, FALSE)
            /\ UNCHANGED <<next_id, balances, flow>>
       ELSE Rejected("TapConnect", o.tank)

(***************************************************************************)
(* tap_flow_evaluator (tap_flow_evaluator.cpp), for a tap_open_operation   *)
(* that carries no queries                                                 *)
(***************************************************************************)
\* max_release_inspector: the release one requirement allows
\* An inspector whose minimum_tank_level is the difference of balance and level
max_release_inspect_unguarded(tank, tap_ID, requirement_index) ==
    LET req == tank.schematic.taps[tap_ID].requirements[requirement_index + 1]
    IN  CASE req.type = "immediate_flow_limit" -> Amount(req.limit)
          [] req.type = "minimum_tank_level" -> Amount(tank.balance - req.minimum_level)
          [] req.type = "cumulative_flow_limit" -> Amount(req.limit)
          [] req.type = "periodic_flow_limit" -> Amount(req.limit)
          [] req.type = "exchange_requirement" -> Amount(0)
          [] req.type = "review_requirement" -> Amount(0)

max_release_inspect(tank, tap_ID, requirement_index) ==
    LET req == tank.schematic.taps[tap_ID].requirements[requirement_index + 1]
    IN  CASE req.type = "immediate_flow_limit" -> Amount(req.limit)
          [] req.type = "minimum_tank_level" ->
                IF tank.balance <= req.minimum_level THEN Amount(0)
                ELSE Amount(tank.balance - req.minimum_level)
          [] req.type = "periodic_flow_limit" ->
                LET addr == requirement_address("periodic_flow_limit", tap_ID,
                                                requirement_index)
                IN  IF addr \notin DOMAIN tank.accessory_states THEN Amount(req.limit)
                    ELSE IF tank.accessory_states[addr].period_num
                               = (head_block_time - tank.creation_date)
                                     \div req.period_duration_sec
                         THEN Amount(req.limit - tank.accessory_states[addr].amount_released)
                         ELSE Amount(req.limit)
          [] req.type = "review_requirement" -> Amount(0)
          [] req.type = "cumulative_flow_limit" ->
                LET addr == requirement_address("cumulative_flow_limit", tap_ID,
                                                requirement_index)
                IN  IF addr \notin DOMAIN tank.accessory_states THEN Amount(req.limit)
                    ELSE Amount(req.limit - tank.accessory_states[addr].amount_released)
          [] req.type = "exchange_requirement" ->
                LET addr == requirement_address("exchange_requirement", tap_ID,
                                                requirement_index)
                    meter == attachment_address("asset_flow_meter", req.meter_id.id)
                    amount_released == IF addr \in DOMAIN tank.accessory_states
                                       THEN tank.accessory_states[addr].amount_released
                                       ELSE 0
                IN  IF meter \notin DOMAIN tank.accessory_states THEN Amount(0)
                    ELSE \* exchange_requirement::max_release_amount (types.hpp)
                         Amount((tank.accessory_states[meter].metered_amount
                                     \div req.tick_amount) * req.release_per_tick
                                - amount_released)

\* The loop with <= in place of < at the comparison of line 206
RECURSIVE max_tap_release_le(_, _, _, _, _)
max_tap_release_le(tank, tap_ID, i, tap_limit, lowest_limit_requirement) ==
    IF i >= Len(tank.schematic.taps[tap_ID].requirements)
    THEN [first |-> lowest_limit_requirement, second |-> tap_limit]
    ELSE LET req_limit == max_release_inspect(tank, tap_ID, i)
             lower == flow_le(req_limit, tap_limit)
             limit == IF lower THEN req_limit ELSE tap_limit
             lowest == IF lower THEN Some(i) ELSE lowest_limit_requirement
         IN  IF ~limit.unlimited /\ limit.amount = 0
             THEN [first |-> lowest, second |-> limit]
             ELSE max_tap_release_le(tank, tap_ID, i + 1, limit, lowest)

\* The loop of max_tap_release from requirement i on
RECURSIVE max_tap_release_from(_, _, _, _, _)
max_tap_release_from(tank, tap_ID, i, tap_limit, lowest_limit_requirement) ==
    IF i >= Len(tank.schematic.taps[tap_ID].requirements)
    THEN [first |-> lowest_limit_requirement, second |-> tap_limit]
    ELSE LET req_limit == max_release_inspect(tank, tap_ID, i)
             lower == flow_lt(req_limit, tap_limit)
             limit == IF lower THEN req_limit ELSE tap_limit
             lowest == IF lower THEN Some(i) ELSE lowest_limit_requirement
         IN  IF ~limit.unlimited /\ limit.amount = 0
             THEN [first |-> lowest, second |-> limit]
             ELSE max_tap_release_from(tank, tap_ID, i + 1, limit, lowest)

max_tap_release(tank, tap_ID) ==
    max_tap_release_from(tank, tap_ID, 0, Amount(tank.balance), None)

\* An evaluate_tap_flow without the check of lines 53-59 that the tap is not
\* locked and the tank not empty
evaluate_locked_tap_flow(db, tap_to_open, flow_amount, max_taps_to_open) ==
    /\ tap_to_open.tank \in DOMAIN db
    /\ tap_to_open.tap \in DOMAIN db[tap_to_open.tank].schematic.taps
    /\ LET max_release == max_tap_release(db[tap_to_open.tank], tap_to_open.tap).second
       IN  ~flow_amount.unlimited => flow_le(flow_amount, max_release)

\* evaluate_tap_flow returns (TRUE) or throws (FALSE).  It stops after the
\* checks of the request against the release limit ("TODO: Finish tap flow
\* logic"): no tank is changed and max_taps_to_open is never read.
evaluate_tap_flow(db, tap_to_open, flow_amount, max_taps_to_open) ==
    /\ tap_to_open.tank \in DOMAIN db
    /\ tap_to_open.tap \in DOMAIN db[tap_to_open.tank].schematic.taps
    /\ LET max_release == max_tap_release(db[tap_to_open.tank], tap_to_open.tap).second
       IN  /\ ~(~max_release.unlimited /\ max_release.amount = 0)
           /\ ~flow_amount.unlimited => flow_le(flow_amount, max_release)

\* tap_flow_evaluator_impl::require_authority (lines 31-35) on the report's
\* authorities_required, a map from tank id to a list of authorities
require_authority(authorities_required, tank_id, auth) ==
    LET auths == IF tank_id \in DOMAIN authorities_required
                 THEN authorities_required[tank_id] ELSE <<>>
    IN  [t \in DOMAIN authorities_required \cup {tank_id} |->
            IF t # tank_id THEN authorities_required[t]
            ELSE IF \E i \in 1..Len(auths) : auths[i] = auth THEN auths
            ELSE Append(auths, auth)]

tap_open_validate(o) ==
    /\ ~o.release_amount.unlimited => o.release_amount.amount > 0
    /\ o.tap_open_count >= 1

TapOpen(o) ==
    /\ UNCHANGED <<head_block_time, call>>
    /\ flow.pc = "idle"
    /\ IF /\ tap_open_validate(o)
          /\ evaluate_tap_flow(tanks, o.tap_to_open, o.release_amount, o.tap_open_count)
       THEN /\ tanks' = cow_commit(tanks, tanks)
            /\ last' = Result("TapOpen", TRUE, o.tap_to_open.tank, FALSE)
            /\ UNCHANGED <<next_id, balances, flow, ops>>
       ELSE Rejected("TapOpen", o.tap_to_open.tank)

(***************************************************************************)
(* tank_query_operation (operations.cpp, evaluators.cpp) with the queries  *)
(* create_request_for_review and reset_meter                               *)
(***************************************************************************)
create_request_for_review(tap_ID, requirement_index) ==
    [type |-> "create_request_for_review", tap_ID |-> tap_ID, index |-> requirement_index]
reset_meter(attachment_ID) ==
    [type |-> "reset_meter", tap_ID |-> 0, index |-> attachment_ID]

\* query_evaluator::evaluate_query: whether the query is accepted, the
\* authorities it requires and the accessory states once it is applied
evaluate_query(tank, query) ==
    CASE query.type = "create_request_for_review" ->
            LET addr == requirement_address("review_requirement", query.tap_ID, query.index)
                used == IF addr \in DOMAIN tank.accessory_states
                        THEN tank.accessory_states[addr].request_counter ELSE 0
            IN  IF /\ query.tap_ID \in DOMAIN tank.schematic.taps
                   /\ query.index < Len(tank.schematic.taps[query.tap_ID].requirements)
                   /\ tank.schematic.taps[query.tap_ID].requirements[query.index + 1].type
                          = "review_requirement"
                   /\ used < tank.schematic.taps[query.tap_ID]
                                  .requirements[query.index + 1].request_limit
                THEN [ok |-> TRUE, auths |-> {},
                      states |-> [a \in DOMAIN tank.accessory_states \cup {addr} |->
                                     IF a = addr THEN review_state(used + 1)
                                     ELSE tank.accessory_states[a]]]
                ELSE [ok |-> FALSE]
      [] query.type = "reset_meter" ->
            LET addr == attachment_address("asset_flow_meter", query.index)
            IN  IF /\ query.index \in DOMAIN tank.schematic.attachments
                   /\ tank.schematic.attachments[query.index].type = "asset_flow_meter"
                THEN [ok |-> TRUE, auths |-> {Val(tank.schematic.taps[0].open_authority)},
                      states |-> [a \in DOMAIN tank.accessory_states \cup {addr} |->
                                     IF a = addr THEN meter_state(0)
                                     ELSE tank.accessory_states[a]]]
                ELSE [ok |-> FALSE]

SeqElems(q) == {q[i] : i \in 1..Len(q)}

tank_query_validate(o) ==
    /\ \A i, j \in 1..Len(o.required_authorities) :
          i # j => o.required_authorities[i] # o.required_authorities[j]
    /\ o.queries # <<>>

\* The queries from the i-th on: whether all are accepted with authorities
\* the operation declares, the declared authorities used, the states after
RECURSIVE evaluate_queries(_, _, _, _)
evaluate_queries(tank, o, i, used_auths) ==
    IF i > Len(o.queries) THEN [ok |-> TRUE, used |-> used_auths, states |-> tank.accessory_states]
    ELSE LET r == evaluate_query(tank, o.queries[i])
         IN  IF r.ok /\ r.auths \subseteq SeqElems(o.required_authorities)
             THEN evaluate_queries([tank EXCEPT !.accessory_states = r.states], o, i + 1,
                                   used_auths \cup r.auths)
             ELSE [ok |-> FALSE]

\* A do_evaluate without the test of line 155 for declared but unused authorities
query_evaluate_unused_allowed(db, o) ==
    /\ o.tank_to_query \in DOMAIN db
    /\ evaluate_queries(db[o.tank_to_query], o, 1, {}).ok

tank_query_do_evaluate(db, o) ==
    /\ o.tank_to_query \in DOMAIN db
    /\ LET r == evaluate_queries(db[o.tank_to_query], o, 1, {})
       IN  r.ok /\ Cardinality(r.used) = Len(o.required_authorities)

TankQuery(o) ==
    /\ UNCHANGED <<head_block_time, call>>
    /\ flow.pc = "idle"
    /\ ops < MaxOps
    /\ IF tank_query_validate(o) /\ tank_query_do_evaluate(tanks, o)
       THEN /\ tanks' = [tanks EXCEPT ![o.tank_to_query].accessory_states =
                            evaluate_queries(tanks[o.tank_to_query], o, 1, {}).states]
            /\ ops' = ops + 1
            /\ last' = Result("TankQuery", TRUE, o.tank_to_query,
                              tanks'[o.tank_to_query].accessory_states
                                  # tanks[o.tank_to_query].accessory_states)
            /\ UNCHANGED <<next_id, balances, flow>>
       ELSE Rejected("TankQuery", o.tank_to_query)

(***************************************************************************)
(* The operations enumerated and the specification                         *)
(***************************************************************************)
CreateOps ==
    {[payer |-> p, deposit_amount |-> d, contained_asset |-> g[1], taps |-> g[2],
      attachments |-> g[3]] : p \in Accounts, d \in 0..MaxDeposit, g \in CreateDesigns}

UpdateOp(p, a, t, d, u) ==
    [payer |-> p, update_authority |-> a, tank_to_update |-> t, deposit_delta |-> d,
     taps_to_remove |-> u.taps_to_remove, taps_to_replace |-> u.taps_to_replace,
     taps_to_add |-> u.taps_to_add, attachments_to_remove |-> u.attachments_to_remove,
     attachments_to_replace |-> u.attachments_to_replace,
     attachments_to_add |-> u.attachments_to_add]

UpdateOpsOf(t) ==
    {UpdateOp(p, a, t, d, u) :
        p \in Accounts, a \in Authorities, d \in (-MaxDelta)..MaxRefund,
        u \in UpdateChoices(tanks[t].schematic)}

UpdateOps == UNION {UpdateOpsOf(t) : t \in DOMAIN tanks}

DeleteOps ==
    {[payer |-> p, delete_authority |-> a, tank_to_delete |-> t, deposit_claimed |-> d] :
        p \in Accounts, a \in Authorities, t \in TankIds, d \in (-MaxDelta)..MaxDeposit}

FundSinks ==
    {AccountSink(Bob), same_tank, AttachmentSink(None, 0)}
    \cup {TankSink(t) : t \in TankIds} \cup {AttachmentSink(Some(t), 0) : t \in TankIds}

FundOps ==
    {[account |-> p, sink |-> s, asset |-> x, amount |-> n] :
        p \in Accounts, s \in FundSinks, x \in Assets, n \in 0..MaxAmount}

ConnectOps ==
    {[tank |-> t, tap |-> i, connect_authority |-> a, new_sink |-> s] :
        t \in TankIds, i \in 0..(MaxTaps - 1), a \in {AuthA, AuthB},
        s \in {AccountSink(Bob), AttachmentSink(None, 0)}}

OpenOps ==
    {[tap_to_open |-> [tank |-> t, tap |-> i], release_amount |-> r, tap_open_count |-> c] :
        t \in TankIds, i \in 0..(MaxTaps - 1),
        r \in {unlimited_flow} \cup {Amount(n) : n \in 0..MaxAmount},
        c \in 0..MaxTapOpenCount}

QueryOps ==
    {[tank_to_query |-> t, required_authorities |-> r, queries |-> q] :
        t \in TankIds, r \in {<<>>, <<AuthA>>, <<AuthB>>, <<AuthA, AuthA>>},
        q \in {<<>>, <<create_request_for_review(1, 0)>>, <<reset_meter(0)>>,
               <<create_request_for_review(1, 0), reset_meter(0)>>}}

Next ==
    \/ \E o \in CreateOps :
          \E lookup \in LookupOutcomes(
                 from_create_operation(o.contained_asset, o.taps, o.attachments)) :
             TankCreate(o, lookup)
    \/ \E o \in UpdateOps :
          \E lookup \in LookupOutcomes(update_from_operation(tanks[o.tank_to_update].schematic, o)) :
             TankUpdate(o, lookup)
    \/ \E o \in DeleteOps : TankDelete(o)
    \/ \E o \in QueryOps : TankQuery(o)
    \/ \E o \in ConnectOps : TapConnect(o)
    \/ \E o \in OpenOps : TapOpen(o)
    \/ \E o \in FundOps : ReleaseBegin(o)
    \/ ReleaseStep
    \/ ReleaseDeposit

Spec == Init /\ [][Next]_vars

(***************************************************************************)
(* deposit_source_restrictor::get_matching_deposit_path called directly:   *)
(* the restrictor's patterns and the deposit path are the arguments        *)
(***************************************************************************)
MaxPatternLen == 4
MaxChainLen == 3

\* Sinks of tank 1 that deposit paths and patterns name
SinkB == AttachmentSink(Some(1), 0)
SinkX == AttachmentSink(Some(1), 1)

SeqsOf(S, lo, hi) == UNION {[1..n -> S] : n \in lo..hi}

PatternElements ==
    {PSink(AccountSink(Alice)), PSink(SinkB), PSink(same_tank), Wildcard(FALSE), Wildcard(TRUE)}

\* The patterns the validator accepts in a restrictor
LegalPatterns ==
    {p \in SeqsOf(PatternElements, 2, MaxPatternLen) :
        internal_attachment_checker(deposit_source_restrictor(<<p>>))}

\* A pattern that a deposit of Alice never matches, to stand before another
BobDirect == <<PSink(AccountSink(Bob)), PSink(same_tank)>>

PatternLists == {<<p>> : p \in LegalPatterns} \cup {<<BobDirect, p>> : p \in LegalPatterns}

\* Deposit paths with the origin an account or unknown and a chain that is
\* not empty; only the last sink of a chain can be a terminal sink
DepositPaths ==
    {[origin |-> o, sink_chain |-> c] :
        o \in {Some(AccountSink(a)) : a \in Accounts} \cup {None},
        c \in {q \in SeqsOf({SinkB, SinkX, TankSink(1)}, 1, MaxChainLen) :
                  \A i \in 1..(Len(q) - 1) : ~is_terminal_sink(q[i])}}

\* What the caller sees of a result: when the pattern cursor has run past
\* end() (undefined behaviour) it compares unequal to end() and the function
\* goes on to report no match, or the process faults
MatchOutcomes(r) ==
    IF r.kind = "ub" THEN {MatchResult("none", 0), MatchResult("crash", 0)} ELSE {r}

\* The pattern with its k-th element, a wildcard, made repeatable
relax(pattern, k) == [pattern EXCEPT ![k] = Wildcard(TRUE)]

MatchInit ==
    /\ tanks = NoTanks
    /\ next_id = 1
    /\ balances = [a \in Accounts |-> [x \in Assets |-> 0]]
    /\ flow = Idle
    /\ ops = 0
    /\ last = Result("none", TRUE, 0, FALSE)
    /\ head_block_time = 0
    /\ call \in {[pc |-> "call", restrictor |-> deposit_source_restrictor(l), path |-> d,
                   my_tank |-> Some(1)] : l \in PatternLists, d \in DepositPaths}

\* restrictor.get_matching_deposit_path(path, my_tank)
MatchCall ==
    /\ call.pc = "call"
    /\ \E r \in MatchOutcomes(get_matching_deposit_path(call.restrictor, call.path,
                                                         call.my_tank)) :
          call' = [pc |-> "returned", restrictor |-> call.restrictor, path |-> call.path,
                   my_tank |-> call.my_tank, result |-> r]
    /\ UNCHANGED <<tanks, next_id, balances, flow, ops, last, head_block_time>>

\* The same path matched against the single pattern with its k-th element,
\* a non-repeatable wildcard, replaced by a repeatable one
MatchRelaxed(k) ==
    /\ call.pc = "returned"
    /\ Len(call.restrictor.legal_deposit_paths) = 1
    /\ LET pattern == call.restrictor.legal_deposit_paths[1]
       IN  /\ k \in 1..Len(pattern)
           /\ pattern[k].wildcard /\ ~pattern[k].repeatable
           /\ relax(pattern, k) \in LegalPatterns
           /\ \E r \in MatchOutcomes(get_matching_deposit_path(
                              deposit_source_restrictor(<<relax(pattern, k)>>),
                              call.path, call.my_tank)) :
                 call' = [pc |-> "relaxed", restrictor |-> call.restrictor,
                          path |-> call.path, my_tank |-> call.my_tank,
                          result |-> call.result, relaxed |-> k, relaxed_result |-> r]
    /\ UNCHANGED <<tanks, next_id, balances, flow, ops, last, head_block_time>>

MatchNext ==
    \/ MatchCall
    \/ \E k \in 1..MaxPatternLen : MatchRelaxed(k)

MatchSpec == MatchInit /\ [][MatchNext]_vars

(***************************************************************************)
(* A cow_db_wrapper session used directly (cow_db_wrapper_test): tanks are *)
(* read and written through the wrapper, then the session is committed.    *)
(* flow.cow holds the session's copies, flow.log the object last written   *)
(* to each tank.                                                           *)
(***************************************************************************)
\* The tanks of the database the session is opened on
SessionTank(balance) ==
    tank_object(from_create_operation(AssetX, <<EmergencyTap(AuthA)>>, <<>>),
                balance, 1, NoStates, None)

CowInit ==
    /\ tanks \in [1..MaxTanks -> {SessionTank(b) : b \in 0..MaxAmount}]
    /\ next_id = MaxTanks + 1
    /\ balances = [a \in Accounts |-> [x \in Assets |-> 0]]
    /\ flow = [pc |-> "session", cow |-> NoTanks, log |-> NoTanks]
    /\ ops = 0
    /\ last = Result("none", TRUE, 0, FALSE)
    /\ head_block_time = 0
    /\ call = NoCall

CowAccess(op, t, object) ==
    [op |-> op, ok |-> TRUE, tank |-> t, touched |-> op = "write", value |-> object]

\* The object last written to tank t in this session, the database object
\* if there was no write
last_written(t) == IF t \in DOMAIN flow.log THEN flow.log[t] ELSE tanks[t]

CowWrite(t, object) ==
    /\ tanks' = db_after_write(tanks, t, object)
    /\ flow' = [flow EXCEPT !.cow = cow_write(tanks, flow.cow, t, object),
                            !.log = [u \in DOMAIN flow.log \cup {t} |->
                                        IF u = t THEN object ELSE flow.log[u]]]
    /\ last' = CowAccess("write", t, object)
    /\ UNCHANGED <<next_id, balances, ops, head_block_time, call>>

\* tank_id(wrapper).balance() = value
CowWriteBalance(t, value) ==
    /\ flow.pc = "session"
    /\ CowWrite(t, [cow_read(tanks, flow.cow, t) EXCEPT !.balance = value])

\* tank_id(wrapper).schematic().taps[0] = tap
CowWriteTap(t, tap) ==
    /\ flow.pc = "session"
    /\ CowWrite(t, [cow_read(tanks, flow.cow, t) EXCEPT !.schematic.taps[0] = tap])

\* tank_id(wrapper), read through a handle just obtained
CowRead(t) ==
    /\ flow.pc = "session"
    /\ last' = CowAccess("read", t, cow_read(tanks, flow.cow, t))
    /\ UNCHANGED <<tanks, next_id, balances, flow, ops, head_block_time, call>>

\* wrapper.commit(db)
CowCommit ==
    /\ flow.pc = "session"
    /\ tanks' = cow_commit(tanks, flow.cow)
    /\ flow' = [flow EXCEPT !.pc = "committed"]
    /\ last' = Result("commit", TRUE, 0, flow.cow # NoTanks)
    /\ UNCHANGED <<next_id, balances, ops, head_block_time, call>>

CowNext ==
    \/ \E t \in 1..MaxTanks : \E value \in 0..MaxAmount : CowWriteBalance(t, value)
    \/ \E t \in 1..MaxTanks : \E tap \in {EmergencyTap(AuthB), ReviewTap} : CowWriteTap(t, tap)
    \/ \E t \in 1..MaxTanks : CowRead(t)
    \/ CowCommit

CowSpec == CowInit /\ [][CowNext]_vars

(***************************************************************************)
(* A tank whose tap 1 is connected to Bob behind a periodic_flow_limit,    *)
(* opened again and again while the head block time advances               *)
(***************************************************************************)
MaxPeriod == 2
MaxTime == 3

PeriodicTap(period_duration_sec, limit) ==
    Tap(Some(AccountSink(Bob)), Some(AuthB), Some(AuthB),
        <<periodic_flow_limit(period_duration_sec, limit)>>, FALSE)

PeriodInit ==
    /\ tanks \in {(1 :> tank_object(
                           from_create_operation(AssetX, <<EmergencyTap(AuthA),
                                                          PeriodicTap(p, l)>>, <<>>),
                           b, 2, NoStates, None)) :
                     p \in 1..MaxPeriod, l \in 1..MaxAmount, b \in 0..(2 * MaxAmount)}
    /\ next_id = 2
    /\ balances = [a \in Accounts |-> [x \in Assets |-> 0]]
    /\ flow = Idle
    /\ ops = 0
    /\ last = Result("none", TRUE, 0, FALSE)
    /\ head_block_time = 0
    /\ call = NoCall

\* A block is produced: the head block time advances
Tick ==
    /\ head_block_time < MaxTime
    /\ head_block_time' = head_block_time + 1
    /\ last' = Result("none", TRUE, 0, FALSE)
    /\ UNCHANGED <<tanks, next_id, balances, flow, ops, call>>

PeriodNext ==
    \/ \E o \in OpenOps : TapOpen(o)
    \/ Tick

PeriodSpec == PeriodInit /\ [][PeriodNext]_vars

(***************************************************************************)
(* Releases across tanks: tank 1 carries a flow meter as attachment 0, and  *)
(* tank 2 a meter that releases into it.  Both were created through        *)
(* tank_create_operation with a working tank lookup; the budget of `ops`   *)
(* leaves room for two more operations.                                    *)
(***************************************************************************)
FlowCreates ==
    << [payer |-> Alice, deposit_amount |-> 0, contained_asset |-> AssetX,
        taps |-> <<EmergencyTap(AuthA)>>, attachments |-> <<MeterToBob>>],
       [payer |-> Alice, deposit_amount |-> 0, contained_asset |-> AssetX,
        taps |-> <<EmergencyTap(AuthA)>>, attachments |-> <<MeterToMeter>>] >>

created_tank(db, o) ==
    LET new_tank == from_create_operation(o.contained_asset, o.taps, o.attachments)
    IN  tank_create_do_apply([o EXCEPT !.deposit_amount = calculate_deposit(new_tank)])

FlowInit ==
    /\ LET first == (1 :> created_tank(NoTanks, FlowCreates[1]))
           second == first @@ (2 :> created_tank(first, FlowCreates[2]))
       IN  /\ \A i \in 1..2 :
                  validate_tank(from_create_operation(FlowCreates[i].contained_asset,
                                                      FlowCreates[i].taps,
                                                      FlowCreates[i].attachments),
                                "works", IF i = 1 THEN NoTanks ELSE first, None)
           /\ tanks = second
    /\ next_id = 3
    /\ balances = [a \in Accounts |-> [x \in Assets |->
                       IF a = Alice THEN (IF x = CoreAsset THEN InitialCore ELSE MaxAmount)
                       ELSE 0]]
    /\ flow = Idle
    /\ ops = MaxOps - 2
    /\ last = Result("none", TRUE, 0, FALSE)
    /\ head_block_time = 0
    /\ call = NoCall

FlowNext ==
    \/ \E o \in UpdateOpsOf(1) :
          \E lookup \in LookupOutcomes(update_from_operation(tanks[o.tank_to_update].schematic, o)) :
             TankUpdate(o, lookup)
    \/ \E o \in FundOps : ReleaseBegin(o)
    \/ ReleaseStep
    \/ ReleaseDeposit

FlowSpec == FlowInit /\ [][FlowNext]_vars

(***************************************************************************)
(* The validator called on a schematic (validation.cpp): tank_validator     *)
(* constructed for a tank that has no id yet, as tank_create does, with a   *)
(* working lookup over an empty database.                                   *)
(***************************************************************************)
\* The schematics the validator is called on: an emergency tap, at most one
\* more tap and up to MaxAttachments attachments, with accessories that refer
\* to tap 1 and to attachment 1 of their tank, a tap with two requirements of
\* one type and connected taps among them; and tanks whose one attachment is
\* a restrictor of no pattern or of one pattern, legal or not
ValidateSchematics ==
    LET TapTo(sink) == Tap(Some(sink), Some(AuthB), Some(AuthB), <<>>, FALSE)
        ValidateTaps ==
            {ReviewTap, LimitTap, DanglingTap,
             Tap(None, Some(AuthB), Some(AuthB),
                 <<immediate_flow_limit(1), immediate_flow_limit(2)>>, FALSE)}
            \cup {TapTo(s) : s \in {AccountSink(Bob), same_tank, TankSink(1),
                                      AttachmentSink(None, 0), AttachmentSink(None, 1)}}
        ValidateAttachments ==
            {MeterToBob, MeterHome, MeterLoop, Restrictor, Opener, ConnectAuthority,
             asset_flow_meter(AssetX, AttachmentSink(None, 1)),
             tap_opener(1, Amount(1), AccountSink(Bob), AssetX),
             attachment_connect_authority(AuthA, 1)}
        ValidateRestrictors ==
            {deposit_source_restrictor(l) :
                l \in {<<>>} \cup {<<p>> : p \in SeqsOf(PatternElements, 0, MaxPatternLen - 1)}}
    IN  {from_create_operation(AssetX, <<EmergencyTap(AuthA)>> \o t, a) :
            t \in {<<>>} \cup {<<x>> : x \in ValidateTaps},
            a \in SeqsOf(ValidateAttachments, 0, MaxAttachments)}
        \cup {from_create_operation(AssetX, <<EmergencyTap(AuthA)>>, <<r>>) :
                  r \in ValidateRestrictors}

ValidateInit ==
    /\ tanks = NoTanks
    /\ next_id = 1
    /\ balances = [a \in Accounts |-> [x \in Assets |-> 0]]
    /\ flow = Idle
    /\ ops = 0
    /\ last = Result("none", TRUE, 0, FALSE)
    /\ head_block_time = 0
    /\ call \in {[pc |-> "validate", schema |-> g] : g \in ValidateSchematics}

\* tank_validator(schema, max_sink_chain_length, lookup).validate_tank(), and
\* check_tap_connection(tap) for each tap of the schematic
ValidateCall ==
    /\ call.pc = "validate"
    /\ call' = [pc |-> "validated", schema |-> call.schema,
                accepted |-> validate_tank(call.schema, "works", tanks, None),
                connection |-> [t \in DOMAIN call.schema.taps |->
                                   check_tap_connection(call.schema, t)]]
    /\ UNCHANGED <<tanks, next_id, balances, flow, ops, last, head_block_time>>

ValidateNext == ValidateCall

ValidateSpec == ValidateInit /\ [][ValidateNext]_vars

(***************************************************************************)
(* tap_flow_evaluator called on a tap (tap_flow_evaluator.cpp): tank 1     *)
(* holds some balance and, next to its emergency tap, a tap with up to     *)
(* MaxRequirements requirements, connected or not, with or without an open *)
(* authority.                                                              *)
(***************************************************************************)
MaxRequirements == 2

TapInit ==
    /\ tanks \in {(1 :> tank_object(
                           from_create_operation(AssetX,
                               <<EmergencyTap(AuthA), Tap(sink, open, Some(AuthB), reqs, FALSE)>>,
                               <<>>),
                           b, 2, NoStates, None)) :
                     sink \in {None, Some(AccountSink(Bob))},
                     open \in {None, Some(AuthB)},
                     reqs \in SeqsOf({immediate_flow_limit(1), immediate_flow_limit(2),
                                      minimum_tank_level(1), periodic_flow_limit(1, 1),
                                      review_requirement(AuthA, 1)}, 0, MaxRequirements),
                     b \in 0..(MaxAmount + 1)}
    /\ next_id = 2
    /\ balances = [a \in Accounts |-> [x \in Assets |-> 0]]
    /\ flow = Idle
    /\ ops = 0
    /\ last = Result("none", TRUE, 0, FALSE)
    /\ head_block_time = 0
    /\ call = NoCall

\* max_tap_release(db, tank, tap_ID, queries) for a tap of the tank
MaxReleaseCall(t, tap_ID) ==
    /\ call.pc = "none"
    /\ t \in DOMAIN tanks
    /\ tap_ID \in DOMAIN tanks[t].schematic.taps
    /\ call' = [pc |-> "max_tap_release", tank |-> t, tap_ID |-> tap_ID,
                result |-> max_tap_release(tanks[t], tap_ID)]
    /\ UNCHANGED <<tanks, next_id, balances, flow, ops, last, head_block_time>>

\* A fresh tap_flow_evaluator's evaluate_tap_flow(db, queries, tap_to_open,
\* flow_amount, max_taps_to_open) on a session over the database: whether it
\* returns, the authorities_required of its report, the tanks staged
EvaluateTapFlowCall(o) ==
    /\ call.pc = "none"
    /\ LET ok == evaluate_tap_flow(tanks, o.tap_to_open, o.release_amount, o.tap_open_count)
           tap == tanks[o.tap_to_open.tank].schematic.taps[o.tap_to_open.tap]
       IN  call' = [pc |-> "evaluate_tap_flow", tap_to_open |-> o.tap_to_open,
                    flow_amount |-> o.release_amount, ok |-> ok,
                    authorities_required |->
                        IF ok /\ IsSome(tap.open_authority)
                        THEN require_authority(<<>>, o.tap_to_open.tank, Val(tap.open_authority))
                        ELSE <<>>,
                    cow |-> tanks]
    /\ UNCHANGED <<tanks, next_id, balances, flow, ops, last, head_block_time>>

TapNext ==
    \/ \E t \in TankIds, tap_ID \in 0..MaxTaps : MaxReleaseCall(t, tap_ID)
    \/ \E o \in OpenOps : EvaluateTapFlowCall(o)

TapSpec == TapInit /\ [][TapNext]_vars

(***************************************************************************)
(* A tank with a flow meter and a tap behind requirements whose limit is a *)
(* difference with an amount released: asset is released through the       *)
(* meter, the meter is reset, the taps are opened; there is room for two   *)
(* operations that change the database                                     *)
(***************************************************************************)
ExchangeInit ==
    /\ tanks \in {(1 :> tank_object(
                           from_create_operation(AssetX,
                               <<EmergencyTap(AuthA),
                                 Tap(None, Some(AuthB), Some(AuthB), reqs, FALSE)>>,
                               <<MeterToBob>>),
                           b, 3, NoStates, None)) :
                     reqs \in SeqsOf({exchange_requirement(AttachmentSink(None, 0), 1, 1),
                                      exchange_requirement(AttachmentSink(None, 0), 1, 2),
                                      cumulative_flow_limit(1), periodic_flow_limit(1, 1),
                                      minimum_tank_level(1)}, 1, MaxRequirements),
                     b \in 0..MaxAmount}
    /\ \A t \in DOMAIN tanks : validate_tank(tanks[t].schematic, "works", NoTanks, None)
    /\ next_id = 2
    /\ balances = [a \in Accounts |->
                      [x \in Assets |-> IF a = Alice /\ x = AssetX THEN MaxAmount ELSE 0]]
    /\ flow = Idle
    /\ ops = MaxOps - 2
    /\ last = Result("none", TRUE, 0, FALSE)
    /\ head_block_time = 0
    /\ call = NoCall

ExchangeNext ==
    \/ \E o \in FundOps : ReleaseBegin(o)
    \/ ReleaseStep
    \/ ReleaseDeposit
    \/ \E o \in QueryOps : TankQuery(o)
    \/ \E o \in OpenOps : TapOpen(o)
    \/ \E t \in TankIds, tap_ID \in 0..MaxTaps : MaxReleaseCall(t, tap_ID)

ExchangeSpec == ExchangeInit /\ [][ExchangeNext]_vars

(***************************************************************************)
(* The comparators called on their operands: sink_eq (types.cpp), the      *)
(* operators of asset_flow_limit (types.hpp), address_lt (object.hpp)      *)
(***************************************************************************)
CompareInit ==
    /\ tanks = NoTanks
    /\ next_id = 1
    /\ balances = [a \in Accounts |-> [x \in Assets |-> 0]]
    /\ flow = Idle
    /\ ops = 0
    /\ last = Result("none", TRUE, 0, FALSE)
    /\ head_block_time = 0
    /\ LET Currents == {None} \cup {Some(t) : t \in TankIds}
           Sinks == {same_tank} \cup {AccountSink(a) : a \in Accounts}
                        \cup {TankSink(t) : t \in TankIds}
                        \cup {AttachmentSink(t, i) : t \in Currents, i \in 0..1}
           Limits == {unlimited_flow} \cup {Amount(n) : n \in 0..MaxAmount}
           Addresses ==
               {attachment_address("asset_flow_meter", i) : i \in 0..MaxAttachments}
               \cup {requirement_address(type, t, i) :
                         type \in {"review_requirement", "periodic_flow_limit"},
                         t \in 0..MaxTaps, i \in 0..1}
       IN  call \in {[pc |-> "sink_eq", left_current |-> lc, right_current |-> rc,
                       left |-> l, right |-> r] :
                         lc \in Currents, rc \in Currents, l \in Sinks, r \in Sinks}
                    \cup {[pc |-> "flow_limit", a |-> a, b |-> b] : a \in Limits, b \in Limits}
                    \cup {[pc |-> "address_lt", a |-> a, b |-> b, c |-> c, tid |-> tap_key(t)] :
                              a \in Addresses, b \in Addresses, c \in Addresses,
                              t \in 0..MaxTaps}

\* sink_eq(left_current, right_current)(left, right), and the same with the
\* operands and their current tanks swapped
SinkEqCall ==
    /\ call.pc = "sink_eq"
    /\ call' = [pc |-> "sink_eq returned", left_current |-> call.left_current,
                right_current |-> call.right_current, left |-> call.left, right |-> call.right,
                result |-> sink_eq(call.left_current, call.right_current, call.left, call.right),
                swapped |-> sink_eq(call.right_current, call.left_current, call.right, call.left)]
    /\ UNCHANGED <<tanks, next_id, balances, flow, ops, last, head_block_time>>

\* a < b, b < a, a < a and a <= b on two flow limits
FlowLimitCall ==
    /\ call.pc = "flow_limit"
    /\ call' = [pc |-> "flow_limit returned", a |-> call.a, b |-> call.b,
                lt |-> flow_lt(call.a, call.b), gt |-> flow_lt(call.b, call.a),
                self |-> flow_lt(call.a, call.a), le |-> flow_le(call.a, call.b)]
    /\ UNCHANGED <<tanks, next_id, balances, flow, ops, last, head_block_time>>

\* address_lt on each pair of three addresses, and on each of them and a tap id
AddressLtCall ==
    /\ call.pc = "address_lt"
    /\ call' = [pc |-> "address_lt returned", a |-> call.a, b |-> call.b, c |-> call.c,
                tid |-> call.tid,
                aa |-> address_lt(call.a, call.a),
                ab |-> address_lt(call.a, call.b), ba |-> address_lt(call.b, call.a),
                bc |-> address_lt(call.b, call.c), cb |-> address_lt(call.c, call.b),
                ac |-> address_lt(call.a, call.c), ca |-> address_lt(call.c, call.a),
                a_tid |-> address_lt(call.a, call.tid),
                tid_a |-> address_lt(call.tid, call.a),
                b_tid |-> address_lt(call.b, call.tid),
                tid_b |-> address_lt(call.tid, call.b),
                c_tid |-> address_lt(call.c, call.tid),
                tid_c |-> address_lt(call.tid, call.c)]
    /\ UNCHANGED <<tanks, next_id, balances, flow, ops, last, head_block_time>>

CompareNext ==
    \/ SinkEqCall
    \/ FlowLimitCall
    \/ AddressLtCall

CompareSpec == CompareInit /\ [][CompareNext]_vars

(***************************************************************************)
(* Properties                                                              *)
(***************************************************************************)
LookupKinds == {"works", "none", "crash"}

\* The release a tap_open_operation is due: the smaller of the request and
\* the limit max_tap_release computes, the limit for an unlimited request
release_due(tank, o) ==
    LET limit == max_tap_release(tank, o.tap_to_open.tap).second
    IN  IF o.release_amount.unlimited THEN limit
        ELSE IF flow_le(o.release_amount, limit) THEN o.release_amount ELSE limit

RECURSIVE SumOver(_, _)
SumOver(f, S) ==
    IF S = {} THEN 0
    ELSE LET x == CHOOSE y \in S : TRUE IN f[x] + SumOver(f, S \ {x})

\* All of `asset` held by accounts and by the tanks other than `source`
held_elsewhere(db, bal, source, asset) ==
    SumOver([a \in Accounts |-> bal[a][asset]], Accounts)
    + SumOver([t \in DOMAIN db \ {source} |->
                  IF db[t].schematic.asset_type = asset THEN db[t].balance ELSE 0],
              DOMAIN db \ {source})

\* C1: every TapOpen that succeeds on a tap with a connected sink lowers the
\* source tank's balance by exactly R = min(requested, limit) (the limit when
\* the request is unlimited), and the terminal sinks are credited R in total.
C1_TapOpenReleases ==
    [][\A o \in OpenOps :
          (/\ TapOpen(o)
           /\ last'.op = "TapOpen" /\ last'.ok
           /\ IsSome(tanks[o.tap_to_open.tank].schematic.taps[o.tap_to_open.tap].connected_sink))
          => LET t == o.tap_to_open.tank
                 x == tanks[t].schematic.asset_type
                 R == release_due(tanks[t], o).amount
             IN  /\ tanks'[t].balance = tanks[t].balance - R
                 /\ held_elsewhere(tanks', balances', t, x)
                        = held_elsewhere(tanks, balances, t, x) + R]_vars

\* C2: after any sequence of successful operations every existing tank has
\* balance >= 0 and deposit >= 0.
C2_NonNegative ==
    \A t \in DOMAIN tanks : tanks[t].balance >= 0 /\ tanks[t].deposit >= 0

\* C3: a release that fails after it has written staged state (a meter's
\* metered_amount was raised, then the deposit was refused) leaves the tank
\* records and the account balances of the database as they were before the
\* operation started: nothing changes while a flow runs, nor when it fails.
C3_FailedFlowLeavesNoTrace ==
    [][(\/ flow.pc = "idle" /\ flow'.pc = "walk"
        \/ flow.pc = "walk" /\ ~(flow'.pc = "idle" /\ last'.ok))
       => (tanks' = tanks /\ balances' = balances)]_vars

\* A flow has failed after it wrote to the staged accessory states
C3_FailedAfterStaging == last.op = "rejected" /\ ~last.ok /\ last.touched

\* The taps the tap openers on the path from `sink` ask to open
RECURSIVE openers_on_path(_, _, _, _)
openers_on_path(db, current, sink, n) ==
    IF sink.kind # "attachment" \/ n = 0 THEN <<>>
    ELSE LET t == IF IsSome(sink.tank) THEN Val(sink.tank) ELSE current
         IN  IF t \notin DOMAIN db THEN <<>>
             ELSE IF sink.id \notin DOMAIN db[t].schematic.attachments THEN <<>>
             ELSE LET att == db[t].schematic.attachments[sink.id]
                  IN  IF att.type = "tap_opener"
                      THEN <<[tank |-> t, tap |-> att.tap_index]>>
                               \o openers_on_path(db, t, att.destination_sink, n - 1)
                      ELSE IF att.type = "asset_flow_meter"
                      THEN openers_on_path(db, t, att.destination_sink, n - 1)
                      ELSE <<>>

\* The number of tap flows in the cascade that opening the queued taps sets
\* off, counted up to `cap`
RECURSIVE cascade_size(_, _, _, _)
cascade_size(db, queue, done, cap) ==
    IF queue = <<>> \/ done >= cap THEN done
    ELSE LET tap == Head(queue)
             more == IF /\ tap.tank \in DOMAIN db
                        /\ tap.tap \in DOMAIN db[tap.tank].schematic.taps
                        /\ IsSome(db[tap.tank].schematic.taps[tap.tap].connected_sink)
                     THEN openers_on_path(db, tap.tank,
                              Val(db[tap.tank].schematic.taps[tap.tap].connected_sink),
                              max_sink_chain_length)
                     ELSE <<>>
         IN  cascade_size(db, Tail(queue) \o more, done + 1, cap)

\* C4: a TapOpen succeeds only if the cascade of tap flows it sets off stays
\* within max_taps_to_open (tap_open_count); a cascade of tap openers that
\* exceeds the bound makes the whole operation fail.
C4_CascadeBounded ==
    [][\A o \in OpenOps :
          (TapOpen(o) /\ last'.op = "TapOpen" /\ last'.ok)
          => cascade_size(tanks, <<o.tap_to_open>>, 0, MaxTapOpenCount + 1)
                 <= o.tap_open_count]_vars

\* C5: release_to_sink terminates, also when destination sinks form a cycle:
\* every step of a flow either ends it or makes the path one sink longer, the
\* path never holds more than max_sink_chain_length attachment sinks, and a
\* flow that has used them all and still faces an attachment fails.
C5_ChainBounded ==
    [][flow.pc = "walk" =>
          /\ Len(flow.sink_path) <= max_sink_chain_length
          /\ \/ flow'.pc = "idle"
             \/ /\ flow'.pc = "walk"
                /\ Len(flow'.sink_path) = Len(flow.sink_path) + 1
                /\ Len(flow'.sink_path) <= max_sink_chain_length
          /\ (~is_terminal_sink(flow.sink) /\ Len(flow.sink_path) = max_sink_chain_length)
                => (flow'.pc = "idle" /\ ~last'.ok /\ tanks' = tanks /\ balances' = balances)]_vars

\* A flow through a cycle of attachments has used up the chain length
C5_CycleAtBound ==
    /\ flow.pc = "walk"
    /\ Len(flow.sink_path) = max_sink_chain_length
    /\ ~is_terminal_sink(flow.sink)
    /\ flow.sink \in SeqElems(flow.sink_path)

\* C6: a TankDelete carrying the tank's emergency-tap open authority succeeds
\* if and only if the tank's balance is 0 and deposit_claimed equals the
\* recorded deposit; on success the tank is removed and the payer credited
\* deposit_claimed, on failure the tanks and all balances are unchanged.
C6_DeleteIffEmptyAndClaimed ==
    [][\A o \in DeleteOps :
          (/\ TankDelete(o)
           /\ o.tank_to_delete \in DOMAIN tanks
           /\ o.delete_authority
                  = Val(tanks[o.tank_to_delete].schematic.taps[0].open_authority))
          => LET tank == tanks[o.tank_to_delete]
                 success == last'.op = "TankDelete" /\ last'.ok
             IN  /\ success <=> (tank.balance = 0 /\ o.deposit_claimed = tank.deposit)
                 /\ success =>
                       /\ o.tank_to_delete \notin DOMAIN tanks'
                       /\ balances' = adjust_balance(balances, o.payer, CoreAsset,
                                                     o.deposit_claimed)
                 /\ ~success => (tanks' = tanks /\ balances' = balances)]_vars

emergency_tap_present(tank) ==
    /\ 0 \in DOMAIN tank.schematic.taps
    /\ tank.schematic.taps[0].requirements = <<>>
    /\ IsSome(tank.schematic.taps[0].open_authority)
    /\ IsSome(tank.schematic.taps[0].connect_authority)
    /\ tank.schematic.taps[0].destructor_tap = TRUE

\* The updates that list tap 0 in taps_to_remove
RemoveEmergencyTapOps ==
    {UpdateOp(p, a, t, d, [NoUpdate EXCEPT !.taps_to_remove = {0}]) :
        p \in Accounts, a \in Authorities, t \in DOMAIN tanks, d \in (-MaxDelta)..MaxRefund}

\* C7: after every step each tank has a tap 0 with no requirements, an open
\* authority, a connect authority and destructor_tap = true, also when an
\* update replaced tap 0; an update that lists tap 0 in taps_to_remove is
\* rejected.
C7_EmergencyTapKept ==
    [][/\ \A t \in DOMAIN tanks' : emergency_tap_present(tanks'[t])
       /\ \A o \in RemoveEmergencyTapOps : \A lookup \in LookupKinds :
             TankUpdate(o, lookup) => (~last'.ok /\ tanks' = tanks)]_vars

\* An update has replaced tap 0 of a tank
C7_EmergencyTapReplaced ==
    /\ last.op = "TankUpdate" /\ last.ok
    /\ last.tank \in DOMAIN tanks
    /\ tanks[last.tank].schematic.taps[0] = EmergencyTap(AuthB)

\* An accessory address resolves in the schematic to an accessory of its type
address_resolves(schema, addr) ==
    IF addr.accessory = "attachment"
    THEN /\ addr.index \in DOMAIN schema.attachments
         /\ schema.attachments[addr.index].type = addr.type
    ELSE /\ addr.tap_ID \in DOMAIN schema.taps
         /\ addr.index < Len(schema.taps[addr.tap_ID].requirements)
         /\ schema.taps[addr.tap_ID].requirements[addr.index + 1].type = addr.type

\* C8: each key of a tank's accessory_states addresses an accessory of the
\* tank's current schematic, and the state stored is of that accessory's
\* state type; no entry survives for a tap or attachment an update removed
\* or replaced.
C8_StatesResolve ==
    \A t \in DOMAIN tanks : \A addr \in DOMAIN tanks[t].accessory_states :
        /\ address_resolves(tanks[t].schematic, addr)
        /\ tanks[t].accessory_states[addr].type = addr.type

\* An update has removed or replaced an accessory that had a state
C8_UpdateClearedState == last.op = "TankUpdate" /\ last.ok /\ last.touched

\* C9: a tank's restrictor_ID is set if and only if its current schematic
\* holds a deposit_source_restrictor, and then it is the id of that
\* attachment, also after updates that add, remove or replace the restrictor.
C9_RestrictorConsistent ==
    \A t \in DOMAIN tanks :
        tanks[t].restrictor_ID = get_deposit_source_restrictor(tanks[t].schematic)

\* C10: after a successful TankCreate the new tank has balance 0 and its
\* recorded deposit is calculate_deposit of its schematic; after a successful
\* TankUpdate the recorded deposit is calculate_deposit of the updated
\* schematic.
C10_DepositRecorded ==
    (last.ok /\ last.op \in {"TankCreate", "TankUpdate"}) =>
        /\ tanks[last.tank].deposit = calculate_deposit(tanks[last.tank].schematic)
        /\ last.op = "TankCreate" => tanks[last.tank].balance = 0

\* The authorities the queries from the i-th on require, each query evaluated
\* on the tank as the queries before it leave it
RECURSIVE queries_authorities(_, _, _)
queries_authorities(tank, queries, i) ==
    IF i > Len(queries) THEN {}
    ELSE LET r == evaluate_query(tank, queries[i])
         IN  IF ~r.ok THEN {}
             ELSE r.auths \cup queries_authorities([tank EXCEPT !.accessory_states = r.states],
                                                   queries, i + 1)

\* C11: a TankQuery is accepted only if the set of authorities its queries
\* require equals required_authorities (none missing, none unused); one that
\* is rejected, also after some of its queries were evaluated, changes no
\* tank.
C11_QueryAuthoritiesExact ==
    [][\A o \in QueryOps :
          TankQuery(o) =>
             IF last'.op = "TankQuery" /\ last'.ok
             THEN queries_authorities(tanks[o.tank_to_query], o.queries, 1)
                      = SeqElems(o.required_authorities)
             ELSE tanks' = tanks]_vars

\* A query that requires the emergency authority was accepted: a meter was reset
C11_AuthorizedQueryAccepted ==
    /\ last.op = "TankQuery" /\ last.ok
    /\ last.tank \in DOMAIN tanks
    /\ \E addr \in DOMAIN tanks[last.tank].accessory_states :
          /\ addr.type = "asset_flow_meter"
          /\ tanks[last.tank].accessory_states[addr].metered_amount = 0

\* C12: an accepted TankUpdate or TankDelete declared the open authority of
\* tap 0 of the tank as it was before the operation, also when the update
\* replaces tap 0; every other one is rejected and leaves the tanks unchanged.
C12_OldEmergencyAuthority ==
    [][/\ (last'.op = "TankUpdate" /\ last'.ok) =>
             \A o \in UpdateOpsOf(last'.tank) : \A lookup \in LookupKinds :
                TankUpdate(o, lookup) =>
                   o.update_authority
                       = Val(tanks[o.tank_to_update].schematic.taps[0].open_authority)
       /\ (last'.op = "TankDelete" /\ last'.ok) =>
             \A o \in DeleteOps :
                TankDelete(o) =>
                   o.delete_authority
                       = Val(tanks[o.tank_to_delete].schematic.taps[0].open_authority)
       /\ last'.op = "rejected" => tanks' = tanks]_vars

\* An update declared the old emergency authority and put another one in place
C12_AuthorityHandedOver ==
    /\ last.op = "TankUpdate" /\ last.ok
    /\ last.tank \in DOMAIN tanks
    /\ tanks[last.tank].schematic.taps[0].open_authority = Some(AuthB)
    /\ tanks[last.tank].schematic.taps[0].connect_authority = Some(AuthB)
    /\ ops >= 2

\* The amount a flow meter of a tank has metered
metered(tank, attachment_ID) ==
    LET addr == attachment_address("asset_flow_meter", attachment_ID)
    IN  IF addr \in DOMAIN tank.accessory_states
        THEN tank.accessory_states[addr].metered_amount ELSE 0

\* The tanks as the flow in progress sees them
session_tanks(f, db) == IF f.pc = "walk" THEN f.cow ELSE db

\* The sink the flow stands at is a flow meter or tap opener of another
\* asset, or a terminal tank that holds another asset
wrong_asset_sink ==
    /\ flow.pc = "walk"
    /\ IF is_terminal_sink(flow.sink)
       THEN LET sink == IF flow.sink.kind = "same_tank" /\ IsSome(flow.current_tank)
                        THEN TankSink(Val(flow.current_tank)) ELSE flow.sink
            IN  /\ sink.kind = "tank"
                /\ sink.id \in DOMAIN flow.cow
                /\ flow.cow[sink.id].schematic.asset_type # flow.asset
       ELSE LET current_tank == IF IsSome(flow.sink.tank) THEN flow.sink.tank
                                ELSE flow.current_tank
            IN  /\ IsSome(current_tank)
                /\ Val(current_tank) \in DOMAIN flow.cow
                /\ flow.sink.id \in DOMAIN flow.cow[Val(current_tank)].schematic.attachments
                /\ LET att == flow.cow[Val(current_tank)].schematic.attachments[flow.sink.id]
                   IN  /\ att.type \in {"asset_flow_meter", "tap_opener"}
                       /\ att.asset_type # flow.asset

\* C13: a release fails at the first flow meter, tap opener or terminal tank
\* whose asset type differs from the released asset; no step of a release
\* raises the metered amount of a meter of another asset, queues a tap for an
\* opener of another asset or raises the balance of a tank of another asset.
C13_WrongAssetStops ==
    [][flow.pc = "walk" =>
          /\ wrong_asset_sink =>
                 /\ flow' = Idle /\ ~last'.ok
                 /\ tanks' = tanks /\ balances' = balances
          /\ \A t \in DOMAIN flow.cow :
                LET before == flow.cow[t]
                    after == session_tanks(flow', tanks')[t]
                IN  /\ \A a \in DOMAIN before.schematic.attachments :
                          metered(after, a) > metered(before, a)
                             => before.schematic.attachments[a].asset_type = flow.asset
                    /\ after.balance > before.balance
                          => before.schematic.asset_type = flow.asset
          /\ (flow'.pc = "walk" /\ flow'.opened # flow.opened) =>
                 LET t == Val(flow'.current_tank)
                 IN  flow.cow[t].schematic.attachments[flow.sink.id].asset_type = flow.asset]_vars

\* A release of the core asset stands at a meter, an opener or a tank of asset X
C13_CoreAssetAtSinkOfX ==
    /\ wrong_asset_sink
    /\ flow.asset = CoreAsset
    /\ flow.amount > 0

\* The current tank of a deposit path (origin, then chain) at its j-th element:
\* the last tank named by the origin or by an attachment sink up to there
RECURSIVE current_tank_at(_, _)
current_tank_at(elems, j) ==
    IF j = 0 THEN None
    ELSE IF elems[j].kind = "attachment" /\ IsSome(elems[j].tank) THEN elems[j].tank
    ELSE IF j = 1 /\ elems[j].kind = "tank" THEN Some(elems[j].id)
    ELSE current_tank_at(elems, j - 1)

\* The pattern from its i-th element on aligns with the path from its j-th
\* element on: a concrete sink equals one element, a wildcard covers one
\* element, a repeatable wildcard covers a run of at least `least` elements,
\* and pattern and path end together
RECURSIVE aligns(_, _, _, _, _, _)
aligns(pattern, i, elems, j, my_tank, least) ==
    IF i > Len(pattern) THEN j > Len(elems)
    ELSE IF pattern[i].wildcard /\ pattern[i].repeatable
         THEN \E n \in least..(Len(elems) + 1 - j) :
                 aligns(pattern, i + 1, elems, j + n, my_tank, least)
    ELSE IF j > Len(elems) THEN FALSE
    ELSE IF pattern[i].wildcard THEN aligns(pattern, i + 1, elems, j + 1, my_tank, least)
    ELSE /\ sink_eq(my_tank, current_tank_at(elems, j), pattern[i].sink, elems[j])
         /\ aligns(pattern, i + 1, elems, j + 1, my_tank, least)

C15_WildcardMonotone ==
    (call.pc = "relaxed" /\ call.result.kind = "match") => call.relaxed_result.kind = "match"

\* The indices of the patterns that align with origin-then-chain
aligning(c, least) ==
    {i \in 1..Len(c.restrictor.legal_deposit_paths) :
        aligns(c.restrictor.legal_deposit_paths[i], 1,
               <<Val(c.path.origin)>> \o c.path.sink_chain, 1, c.my_tank, least)}

\* The result names the lowest aligning pattern, or none when none aligns
names_lowest(c, least) ==
    IF aligning(c, least) = {} THEN c.result.kind = "none"
    ELSE c.result = MatchResult("match", Min(aligning(c, least)) - 1)

\* C16: for validator-accepted patterns and a path with a known origin and
\* a chain that is not empty, get_matching_deposit_path returns the lowest
\* index of a pattern that aligns with origin-then-chain, and no index when
\* no pattern aligns; the run a repeatable wildcard covers is read as
\* possibly empty or as never empty, whichever agrees with the result.
C16_LowestAligningPattern ==
    (call.pc = "returned" /\ IsSome(call.path.origin)) =>
        (names_lowest(call, 0) \/ names_lowest(call, 1))

\* C17: no write made through the wrapper changes the database before the
\* commit: during the session every tank of the database keeps its values.
C17_WritesStaged ==
    [][(flow.pc = "session" /\ flow'.pc = "session") => tanks' = tanks]_vars

\* The session holds a balance and a tap 0 that the database does not have
C17_StagedDiffers ==
    /\ flow.pc = "session"
    /\ \E t \in DOMAIN flow.log :
          /\ flow.log[t].balance # tanks[t].balance
          /\ flow.log[t].schematic.taps[0] # tanks[t].schematic.taps[0]

\* C18: a read of a tank through the wrapper returns the object last written
\* to it in the session, whichever handle wrote it, and the database object
\* when the tank was never written.
C18_ReadsSeeWrites ==
    [][(flow.pc = "session" /\ last'.op = "read") =>
          last'.value = last_written(last'.tank)]_vars

\* A read returned a written balance while another tank read through
C18_ReadAfterWrite ==
    /\ flow.pc = "session"
    /\ last.op = "read"
    /\ last.tank \in DOMAIN flow.log
    /\ last.value.balance # tanks[last.tank].balance
    /\ DOMAIN flow.log # DOMAIN tanks

\* C19: after the commit every tank written in the session holds in the
\* database the object last written to it, balance and schematic together,
\* and every other tank is unchanged.
C19_CommitApplies ==
    [][(flow.pc = "session" /\ flow'.pc = "committed") =>
          \A t \in DOMAIN tanks : tanks'[t] = last_written(t)]_vars

\* A session that wrote balance and tap 0 of one tank and nothing of the
\* other was committed
C19_Committed ==
    /\ flow.pc = "committed"
    /\ DOMAIN flow.log # DOMAIN tanks
    /\ \E t \in DOMAIN flow.log :
          /\ tanks[t] = flow.log[t]
          /\ tanks[t].schematic.taps[0] # EmergencyTap(AuthA)
          /\ tanks[t].balance = MaxAmount

\* What the tank records as released through a tap's periodic flow limit in
\* the period of the head block time `now`
released_in_period(tank, tap_ID, requirement_index, now) ==
    LET req == tank.schematic.taps[tap_ID].requirements[requirement_index + 1]
        addr == requirement_address("periodic_flow_limit", tap_ID, requirement_index)
    IN  IF /\ addr \in DOMAIN tank.accessory_states
           /\ tank.accessory_states[addr].period_num
                  = (now - tank.creation_date) \div req.period_duration_sec
        THEN tank.accessory_states[addr].amount_released ELSE 0

\* The operations that open a tap whose first requirement is a periodic limit
PeriodicOpenOps ==
    {o \in OpenOps :
        /\ o.tap_to_open.tank \in DOMAIN tanks
        /\ o.tap_to_open.tap \in DOMAIN tanks[o.tap_to_open.tank].schematic.taps
        /\ LET reqs == tanks[o.tap_to_open.tank].schematic.taps[o.tap_to_open.tap].requirements
           IN  reqs # <<>> /\ reqs[1].type = "periodic_flow_limit"}

\* C20: a successful TapOpen on a tap with a periodic flow limit releases its
\* amount R from the tank and adds R to what was released in the period of
\* the head block time, which starts at 0 in every new period and never
\* exceeds the limit; so a request above what the period has left fails.
C20_PeriodicLimit ==
    [][\A o \in PeriodicOpenOps :
          (TapOpen(o) /\ last'.op = "TapOpen" /\ last'.ok) =>
             LET t == o.tap_to_open.tank
                 i == o.tap_to_open.tap
                 R == release_due(tanks[t], o).amount
                 before == released_in_period(tanks[t], i, 0, head_block_time)
                 after == released_in_period(tanks'[t], i, 0, head_block_time)
             IN  /\ tanks'[t].balance = tanks[t].balance - R
                 /\ after = before + R
                 /\ after <= tanks[t].schematic.taps[i].requirements[1].limit]_vars

\* The flow stands at an attachment that cannot receive asset, with room left
\* in the chain: the next step of release_to_sink hands it to the inspector's
\* overload for deposit_source_restrictor and attachment_connect_authority
\* (sink_flow_processor.cpp:53-60), which throws the "INTERNAL ERROR"
at_non_receiving_attachment ==
    /\ flow.pc = "walk"
    /\ ~is_terminal_sink(flow.sink)
    /\ chain_has_room(flow.sink_path)
    /\ LET current_tank == IF IsSome(flow.sink.tank) THEN flow.sink.tank ELSE flow.current_tank
       IN  /\ IsSome(current_tank)
           /\ Val(current_tank) \in DOMAIN flow.cow
           /\ flow.sink.id \in DOMAIN flow.cow[Val(current_tank)].schematic.attachments
           /\ flow.cow[Val(current_tank)].schematic.attachments[flow.sink.id].type
                  \in {"deposit_source_restrictor", "attachment_connect_authority"}

\* C21: a release that has flowed through an attachment of a validated tank
\* never arrives at an attachment that cannot receive asset (a deposit source
\* restrictor or an attachment connect authority), whatever validated updates
\* the tanks have gone through
C21_NoFlowIntoNonReceiving ==
    ~(at_non_receiving_attachment /\ Len(flow.sink_path) >= 1)

\* types.hpp: the accessory types declared `unique`
unique(type) ==
    type \in {"deposit_source_restrictor", "immediate_flow_limit", "cumulative_flow_limit",
              "time_lock", "minimum_tank_level", "review_requirement",
              "documentation_requirement", "delay_requirement"}

\* The schematic has two attachments of one unique type, or a tap with two
\* requirements of one unique type
repeats_unique_accessory(schema) ==
    \/ \E a, b \in DOMAIN schema.attachments :
          /\ a # b
          /\ schema.attachments[a].type = schema.attachments[b].type
          /\ unique(schema.attachments[a].type)
    \/ \E t \in DOMAIN schema.taps :
          \E i, j \in 1..Len(schema.taps[t].requirements) :
              /\ i # j
              /\ schema.taps[t].requirements[i].type = schema.taps[t].requirements[j].type
              /\ unique(schema.taps[t].requirements[i].type)

\* C22: validate_tank rejects a schematic that holds more than one deposit
\* source restrictor, or more than one requirement of one unique type on a tap
C22_UniqueAccessories ==
    (call.pc = "validated" /\ repeats_unique_accessory(call.schema)) => ~call.accepted

\* What the claim requires of a connected sink, for a schematic validated
\* over an empty database: within max_sink_chain_length sinks, through
\* attachments of the tank that receive the tank's asset, the chain reaches
\* an account or the tank itself; no tank id names an existing object
RECURSIVE leads_to_depository(_, _, _)
leads_to_depository(schema, s, n) ==
    CASE s.kind = "account" -> TRUE
      [] s.kind = "same_tank" -> TRUE
      [] s.kind = "tank" -> FALSE
      [] OTHER ->
            /\ ~IsSome(s.tank)
            /\ n < max_sink_chain_length
            /\ s.id \in DOMAIN schema.attachments
            /\ receives_asset(schema.attachments[s.id]) = Some(schema.asset_type)
            /\ leads_to_depository(schema, schema.attachments[s.id].destination_sink, n + 1)

\* C23: check_tap_connection accepts a connected tap exactly when its sink
\* leads, within max_sink_chain_length, through sinks that receive the tank's
\* asset to an account or to a tank without a deposit source restrictor
C23_ConnectionChecked ==
    (call.pc = "validated" /\ get_deposit_source_restrictor(call.schema) = None) =>
        \A t \in DOMAIN call.schema.taps :
            IsSome(call.schema.taps[t].connected_sink) =>
                (call.connection[t]
                    <=> leads_to_depository(call.schema, Val(call.schema.taps[t].connected_sink), 0))

\* The deposit path patterns of the restrictors of a schematic
restrictor_patterns(schema) ==
    UNION {{schema.attachments[a].legal_deposit_paths[p] :
                p \in 1..Len(schema.attachments[a].legal_deposit_paths)} :
           a \in {x \in DOMAIN schema.attachments :
                      schema.attachments[x].type = "deposit_source_restrictor"}}

\* C24: every deposit path pattern of a restrictor the validator accepts has
\* at least two elements, begins with a terminal sink or a wildcard, ends
\* with a terminal sink or a wildcard and has no two adjacent repeatable
\* wildcards; a restrictor without patterns is not accepted, nor is a pattern
\* that is a single wildcard
C24_AcceptedPatterns ==
    (call.pc = "validated" /\ call.accepted) =>
        /\ \A a \in DOMAIN call.schema.attachments :
              call.schema.attachments[a].type = "deposit_source_restrictor" =>
                  Len(call.schema.attachments[a].legal_deposit_paths) > 0
        /\ \A path \in restrictor_patterns(call.schema) :
              /\ Len(path) >= 2
              /\ path[1].wildcard \/ is_terminal_sink(path[1].sink)
              /\ path[Len(path)].wildcard \/ is_terminal_sink(path[Len(path)].sink)
              /\ \A i \in 2..Len(path) :
                    ~(/\ path[i].wildcard /\ path[i].repeatable
                      /\ path[i - 1].wildcard /\ path[i - 1].repeatable)

\* The validator has accepted a restrictor whose pattern holds a repeatable
\* wildcard
C24_WildcardPatternAccepted ==
    /\ call.pc = "validated" /\ call.accepted
    /\ \E path \in restrictor_patterns(call.schema) :
          \E i \in 1..Len(path) : path[i].wildcard /\ path[i].repeatable

\* Each tap opener of the schematic names a tap of the schematic, and each
\* attachment connect authority names an attachment of it that receives asset
references_resolve(schema) ==
    \A a \in DOMAIN schema.attachments :
        LET att == schema.attachments[a]
        IN  /\ att.type = "tap_opener" => att.tap_index \in DOMAIN schema.taps
            /\ att.type = "attachment_connect_authority" =>
                  /\ att.attachment_id \in DOMAIN schema.attachments
                  /\ IsSome(receives_asset(schema.attachments[att.attachment_id]))

least_limit(S) == CHOOSE x \in S : \A y \in S : flow_le(x, y)

\* The release limits of the requirements of a tap, by requirement index
requirement_limits(tank, tap_ID) ==
    [i \in 0..(Len(tank.schematic.taps[tap_ID].requirements) - 1) |->
        max_release_inspect(tank, tap_ID, i)]

\* C26: max_tap_release returns the least of the tank's balance and the
\* release limits of the tap's requirements; the index it returns is null
\* exactly when no requirement's limit is strictly below the balance, and
\* otherwise names a requirement whose limit is the limit returned
C26_MaxTapRelease ==
    call.pc = "max_tap_release" =>
        LET tank == tanks[call.tank]
            limits == requirement_limits(tank, call.tap_ID)
            balance == Amount(tank.balance)
        IN  /\ call.result.second
                  = least_limit({balance} \cup {limits[i] : i \in DOMAIN limits})
            /\ ~IsSome(call.result.first)
                  <=> ~\E i \in DOMAIN limits : flow_lt(limits[i], balance)
            /\ IsSome(call.result.first) =>
                  /\ Val(call.result.first) \in DOMAIN limits
                  /\ limits[Val(call.result.first)] = call.result.second

\* max_tap_release has named the second of two requirements, whose limit is
\* below the first one's and below the balance
C26_SecondRequirementLowest ==
    /\ call.pc = "max_tap_release"
    /\ call.result.first = Some(1)
    /\ flow_lt(call.result.second, Amount(tanks[call.tank].balance))
    /\ flow_lt(call.result.second, max_release_inspect(tanks[call.tank], call.tap_ID, 0))

\* The tap that evaluate_tap_flow was called on exists
called_tap_exists ==
    /\ call.pc = "evaluate_tap_flow"
    /\ call.tap_to_open.tank \in DOMAIN tanks
    /\ call.tap_to_open.tap \in DOMAIN tanks[call.tap_to_open.tank].schematic.taps

\* The effective release limit of the tap evaluate_tap_flow was called on
effective_limit ==
    LET tank == tanks[call.tap_to_open.tank]
        limits == requirement_limits(tank, call.tap_to_open.tap)
    IN  least_limit({Amount(tank.balance)} \cup {limits[i] : i \in DOMAIN limits})

\* C27: evaluate_tap_flow fails and stages no change when the tap's effective
\* release limit is zero (the tank is empty or a requirement locks the tap),
\* and when the amount requested is bounded and above the effective limit
C27_LockedOrExceeded ==
    (/\ called_tap_exists
     /\ \/ effective_limit = Amount(0)
        \/ ~call.flow_amount.unlimited /\ flow_lt(effective_limit, call.flow_amount)) =>
        (~call.ok /\ call.cow = tanks)

\* An unlimited release was asked of a tap that a requirement locks, on a
\* tank that holds asset, and was refused
C27_LockedTapRefused ==
    /\ called_tap_exists
    /\ tanks[call.tap_to_open.tank].balance > 0
    /\ effective_limit = Amount(0)
    /\ call.flow_amount.unlimited
    /\ ~call.ok

\* C28: evaluate_tap_flow fails when the tap to open does not exist or has no
\* connected sink; when it returns, the report holds the tap's open
\* authority, if it has one, under the tap's tank id, and no authority twice
\* under one tank
C28_ConnectedAndRecorded ==
    call.pc = "evaluate_tap_flow" =>
        /\ ~called_tap_exists => ~call.ok
        /\ (/\ called_tap_exists
            /\ ~IsSome(tanks[call.tap_to_open.tank].schematic
                            .taps[call.tap_to_open.tap].connected_sink)) => ~call.ok
        /\ call.ok =>
              LET tap == tanks[call.tap_to_open.tank].schematic.taps[call.tap_to_open.tap]
                  required == call.authorities_required
              IN  /\ IsSome(tap.open_authority) =>
                        /\ call.tap_to_open.tank \in DOMAIN required
                        /\ \E i \in 1..Len(required[call.tap_to_open.tank]) :
                              required[call.tap_to_open.tank][i] = Val(tap.open_authority)
                  /\ \A t \in DOMAIN required :
                        \A i, j \in 1..Len(required[t]) :
                            required[t][i] = required[t][j] => i = j

\* C29: a pattern whose last element is a repeatable wildcard matches once
\* the elements before it have matched, also when no chain sink is left for
\* the wildcard: if the concrete elements before the wildcard align with the
\* whole of origin-then-chain, as those of [A, T, **] do with origin A and
\* chain [T], get_matching_deposit_path matches the pattern
C29_TrailingWildcardMatches ==
    (/\ call.pc = "returned"
     /\ IsSome(call.path.origin)
     /\ Len(call.restrictor.legal_deposit_paths) = 1
     /\ LET pattern == call.restrictor.legal_deposit_paths[1]
        IN  /\ pattern[Len(pattern)].wildcard /\ pattern[Len(pattern)].repeatable
            /\ \A k \in 1..(Len(pattern) - 1) : ~pattern[k].wildcard
            /\ aligns(SubSeq(pattern, 1, Len(pattern) - 1), 1,
                      <<Val(call.path.origin)>> \o call.path.sink_chain, 1, call.my_tank, 0)) =>
        call.result = MatchResult("match", 0)

\* The pattern with its first element replaced by a non-repeatable wildcard
any_origin(pattern) == [pattern EXCEPT ![1] = Wildcard(FALSE)]

\* C30: with the origin unknown, a pattern that begins with an account sink
\* does not match, and a pattern that begins with another concrete sink is
\* matched as if its first element had matched: the chain is matched against
\* the rest of the pattern, as it is for a known origin and a pattern that
\* begins with a non-repeatable wildcard
C30_UnknownOrigin ==
    (/\ call.pc = "returned"
     /\ ~IsSome(call.path.origin)
     /\ Len(call.restrictor.legal_deposit_paths) = 1
     /\ ~call.restrictor.legal_deposit_paths[1][1].wildcard) =>
        LET pattern == call.restrictor.legal_deposit_paths[1]
        IN  IF pattern[1].sink.kind = "account" THEN call.result.kind = "none"
            ELSE call.result \in MatchOutcomes(
                     get_matching_deposit_path(
                         deposit_source_restrictor(<<any_origin(pattern)>>),
                         [origin |-> Some(AccountSink(Alice)),
                          sink_chain |-> call.path.sink_chain],
                         call.my_tank))

\* A path of unknown origin has matched a pattern that begins with same_tank
C30_UnknownOriginMatched ==
    /\ call.pc = "returned"
    /\ ~IsSome(call.path.origin)
    /\ Len(call.restrictor.legal_deposit_paths) = 1
    /\ call.restrictor.legal_deposit_paths[1][1] = PSink(same_tank)
    /\ call.result = MatchResult("match", 0)

\* The tank a sink is about: the explicit tank of an attachment sink, or else
\* the current tank of its side
tank_of(s, current) == IF s.kind = "attachment" /\ IsSome(s.tank) THEN s.tank ELSE current

\* C31: sink_eq is contextual and symmetric.  Two same_tank sinks are equal
\* iff both current tanks are known and equal; Tank(x) equals same_tank iff
\* the other side's current tank is known and is x; two attachment sinks are
\* equal iff their indices are equal and their tanks (each side's explicit
\* tank, or else that side's current tank) are known and equal; accounts and
\* tanks are equal iff their ids are; sinks of different kinds are otherwise
\* unequal; swapping the operands with their current tanks keeps the result
C31_SinkEq ==
    call.pc = "sink_eq returned" =>
        LET l == call.left
            r == call.right
            lc == call.left_current
            rc == call.right_current
            expected ==
                CASE l.kind = "same_tank" /\ r.kind = "same_tank" ->
                        IsSome(lc) /\ IsSome(rc) /\ lc = rc
                  [] l.kind = "tank" /\ r.kind = "same_tank" -> rc = Some(l.id)
                  [] l.kind = "same_tank" /\ r.kind = "tank" -> lc = Some(r.id)
                  [] l.kind = "attachment" /\ r.kind = "attachment" ->
                        /\ l.id = r.id
                        /\ IsSome(tank_of(l, lc)) /\ IsSome(tank_of(r, rc))
                        /\ tank_of(l, lc) = tank_of(r, rc)
                  [] l.kind = r.kind /\ l.kind \in {"account", "tank"} -> l.id = r.id
                  [] OTHER -> FALSE
        IN  /\ call.result = expected
            /\ call.result = call.swapped

\* C32: asset_flow_limit is totally ordered with unlimited_flow as the
\* maximum: a <= b holds iff b < a does not, exactly one of a < b, b < a and
\* a = b holds, no limit is less than itself, and every bounded amount is
\* strictly less than unlimited_flow
C32_FlowLimitOrder ==
    call.pc = "flow_limit returned" =>
        /\ call.le <=> ~call.gt
        /\ Cardinality({i \in 1..3 : <<call.lt, call.gt, call.a = call.b>>[i]}) = 1
        /\ ~call.self
        /\ (~call.a.unlimited /\ call.b.unlimited) => (call.lt /\ ~call.gt)

\* The largest bounded amount has been compared with unlimited_flow
C32_ComparedWithUnlimited ==
    /\ call.pc = "flow_limit returned"
    /\ call.b = unlimited_flow
    /\ call.a = Amount(MaxAmount)
    /\ call.lt

\* C34: address_lt is a strict weak ordering of the stateful accessory
\* addresses in which every attachment address precedes every requirement
\* address, attachment addresses are ordered by attachment_ID and requirement
\* addresses by (tap_ID, requirement_index); a tap id used as a key is greater
\* than every attachment address and equivalent to a requirement address
\* exactly when the address is of that tap, so that the addresses equivalent
\* to a tap id are one contiguous range of the order
C34_AddressOrder ==
    call.pc = "address_lt returned" =>
        LET a == call.a
            b == call.b
            equivalent(lt, gt) == ~lt /\ ~gt
        IN  /\ ~call.aa
            /\ call.ab => ~call.ba
            /\ (call.ab /\ call.bc) => call.ac
            /\ (equivalent(call.ab, call.ba) /\ equivalent(call.bc, call.cb))
                    => equivalent(call.ac, call.ca)
            /\ (a.accessory = "attachment" /\ b.accessory = "requirement")
                    => (call.ab /\ ~call.ba)
            /\ (a.accessory = "attachment" /\ b.accessory = "attachment")
                    => (call.ab <=> a.index < b.index)
            /\ (a.accessory = "requirement" /\ b.accessory = "requirement")
                    => (call.ab <=> (\/ a.tap_ID < b.tap_ID
                                     \/ a.tap_ID = b.tap_ID /\ a.index < b.index))
            /\ a.accessory = "attachment" => (call.a_tid /\ ~call.tid_a)
            /\ a.accessory = "requirement"
                    => (equivalent(call.a_tid, call.tid_a) <=> a.tap_ID = call.tid.tap_ID)
            /\ (/\ call.ab /\ call.bc
                /\ equivalent(call.a_tid, call.tid_a)
                /\ equivalent(call.c_tid, call.tid_c))
                    => equivalent(call.b_tid, call.tid_b)

\* A tap id has been compared with two requirement addresses of its tap, which
\* it is equivalent to, and with an attachment address that precedes both
C34_TapRangeCompared ==
    /\ call.pc = "address_lt returned"
    /\ call.a.accessory = "attachment"
    /\ call.b.accessory = "requirement" /\ call.b.tap_ID = call.tid.tap_ID
    /\ call.c.accessory = "requirement" /\ call.c.tap_ID = call.tid.tap_ID
    /\ call.ab /\ call.bc
    /\ ~call.b_tid /\ ~call.tid_b /\ ~call.c_tid /\ ~call.tid_c
    /\ call.a_tid

\* The addresses of a tank's states that an update names: the states of the
\* attachments it removes or replaces, and every requirement state of the
\* taps it removes or replaces
named_by_update(states, o) ==
    {a \in DOMAIN states :
        \/ /\ a.accessory = "attachment"
           /\ a.index \in o.attachments_to_remove \cup DOMAIN o.attachments_to_replace
        \/ /\ a.accessory = "requirement"
           /\ a.tap_ID \in o.taps_to_remove \cup DOMAIN o.taps_to_replace}

\* C33: a successful TankUpdate removes from accessory_states exactly the
\* states of the attachments in attachments_to_remove or
\* attachments_to_replace and all requirement states of the taps in
\* taps_to_remove or taps_to_replace; every other state, of this tank and of
\* every other tank, is left unchanged
C33_UpdateClearsNamedStates ==
    [][last'.op = "TankUpdate" =>
       \A o \in UpdateOpsOf(last'.tank) :
          \A lookup \in LookupOutcomes(update_from_operation(tanks[o.tank_to_update].schematic, o)) :
             TankUpdate(o, lookup) =>
                 LET old == tanks[o.tank_to_update].accessory_states
                     new == tanks'[o.tank_to_update].accessory_states
                 IN  /\ DOMAIN new = DOMAIN old \ named_by_update(old, o)
                     /\ \A a \in DOMAIN new : new[a] = old[a]
                     /\ \A t \in DOMAIN tanks \ {o.tank_to_update} :
                            tanks'[t].accessory_states = tanks[t].accessory_states]_vars

\* An update has removed a requirement state of a tap and kept the state of
\* an attachment it did not name
C33_TapStateCleared ==
    /\ last.op = "TankUpdate" /\ last.ok
    /\ \E a \in last.cleared : a.accessory = "requirement"
    /\ \E a \in DOMAIN tanks[last.tank].accessory_states : a.accessory = "attachment"

\* C35: a release that ends at an account authorized to hold the asset
\* invokes the fund-account callback exactly once, with that account, the
\* released amount and a path that is the origin followed by the sinks
\* walked (the last one the account) and nothing else; a release that does
\* not end so invokes no callback
C35_FundAccountCallback ==
    IF last.op = "AccountFundSink" /\ last.ok /\ last.release # <<>>
          /\ last.release[1].sink_path[Len(last.release[1].sink_path)].kind = "account"
    THEN LET walked == last.release[1].sink_path
             account == walked[Len(walked)].id
         IN  /\ Len(last.funded) = 1
             /\ last.funded[1].account = account
             /\ is_authorized_asset(account, last.funded[1].asset)
             /\ last.funded[1].amount > 0
             /\ last.funded[1].path = <<last.release[1].origin>> \o walked
    ELSE last.funded = <<>>

\* C36: each time a release passes through a tap_opener, the tap-open
\* callback is invoked exactly once with the tap id (the opener's own tank,
\* its tap_index) and its release_amount, and the flow continues to the
\* opener's destination sink; every tap so requested is opened before the
\* operation completes, so an operation that completes has released asset
\* from the tank of each requested tap
C36_TapOpenerOpensTap ==
    [][/\ (flow.pc = "walk" /\ flow'.pc = "walk") =>
             LET t == Val(flow'.current_tank)
                 att == flow.cow[t].schematic.attachments[flow.sink.id]
             IN  IF att.type = "tap_opener"
                 THEN /\ flow'.opened
                            = Append(flow.opened, <<t, att.tap_index, att.release_amount>>)
                      /\ flow'.sink = att.destination_sink
                 ELSE flow'.opened = flow.opened
       /\ (flow.pc = "walk" /\ flow'.pc = "idle" /\ last'.ok) =>
             \A i \in 1..Len(flow.opened) :
                 tanks'[flow.opened[i][1]].balance < tanks[flow.opened[i][1]].balance]_vars

\* C37: each time a release of amount a passes through an asset_flow_meter,
\* the meter's staged metered_amount grows by exactly a (from 0 when the meter
\* has no state yet), the flow continues to the meter's destination sink and
\* no other accessory state of any tank changes in that step; the tank that
\* owns the meter is the attachment sink's explicit tank or, when unset, the
\* current tank of the traversal, and the release fails if neither is known
C37_MeterAddsAmount ==
    [][(flow.pc = "walk" /\ ~is_terminal_sink(flow.sink)) =>
          LET owner == IF IsSome(flow.sink.tank) THEN flow.sink.tank ELSE flow.current_tank
          IN  /\ ~IsSome(owner) => (flow'.pc = "idle" /\ ~last'.ok)
              /\ (/\ flow'.pc = "walk"
                  /\ flow.cow[Val(owner)].schematic.attachments[flow.sink.id].type
                         = "asset_flow_meter") =>
                     LET t == Val(owner)
                         meter == flow.cow[t].schematic.attachments[flow.sink.id]
                         addr == attachment_address("asset_flow_meter", flow.sink.id)
                     IN  /\ flow'.current_tank = owner
                         /\ addr \in DOMAIN flow'.cow[t].accessory_states
                         /\ flow'.cow[t].accessory_states[addr].metered_amount
                                = metered(flow.cow[t], flow.sink.id) + flow.amount
                         /\ flow'.sink = meter.destination_sink
                         /\ \A u \in DOMAIN flow.cow :
                               /\ DOMAIN flow'.cow[u].accessory_states \ {addr}
                                      = DOMAIN flow.cow[u].accessory_states \ {addr}
                               /\ \A a \in DOMAIN flow.cow[u].accessory_states :
                                      (u # t \/ a # addr) =>
                                          flow'.cow[u].accessory_states[a]
                                              = flow.cow[u].accessory_states[a]
                               /\ u # t => flow'.cow[u] = flow.cow[u]]_vars

\* A release has passed a meter that already had metered an amount, and
\* stands at the meter's destination with the sum staged
C37_MeteredAgain ==
    /\ flow.pc = "walk"
    /\ Len(flow.sink_path) = 1
    /\ LET t == Val(flow.current_tank)
           id == flow.sink_path[1].id
       IN  /\ flow.cow[t].schematic.attachments[id].type = "asset_flow_meter"
           /\ metered(tanks[t], id) > 0
           /\ metered(flow.cow[t], id) = metered(tanks[t], id) + flow.amount
           /\ flow.sink = flow.cow[t].schematic.attachments[id].destination_sink

\* The core asset the accounts hold plus the deposits the tanks record
core_and_deposits(db, bal) ==
    SumOver([a \in Accounts |-> bal[a][CoreAsset]], Accounts)
    + SumOver([t \in DOMAIN db |-> db[t].deposit], DOMAIN db)

\* C38: core-asset conservation for deposits.  In each successful TankCreate,
\* TankUpdate and TankDelete the payer's core balance plus the recorded
\* deposits of the existing tanks changes by zero: create moves the deposit
\* from the payer to the tank, update moves the difference between the new
\* and the old deposit between payer and tank, delete returns the recorded
\* deposit to the payer
C38_DepositsConserved ==
    [][(last'.ok /\ last'.op \in {"TankCreate", "TankUpdate", "TankDelete"}
            /\ ops' = ops + 1)
          => core_and_deposits(tanks', balances') = core_and_deposits(tanks, balances)]_vars

RECURSIVE scan_has_more(_, _, _, _, _, _)
scan_has_more(pattern, pe, chain, ce, my_tank, cct0) ==
    IF pe > Len(pattern) \/ ce > Len(chain) THEN FALSE
    ELSE LET cct == IF chain[ce].kind = "attachment" /\ IsSome(chain[ce].tank)
                    THEN chain[ce].tank ELSE cct0
         IN  IF pattern[pe].wildcard
             THEN IF ~pattern[pe].repeatable
                  THEN scan_has_more(pattern, pe + 1, chain, ce + 1, my_tank, cct)
                  ELSE /\ pe + 1 <= Len(pattern)
                       /\ ~pattern[pe + 1].wildcard
                       /\ \E j \in ce..(Len(chain) - 1) :
                              sink_eq(my_tank, cct, pattern[pe + 1].sink, chain[j])
             ELSE /\ sink_eq(my_tank, cct, pattern[pe].sink, chain[ce])
                  /\ scan_has_more(pattern, pe + 1, chain, ce + 1, my_tank, cct)

\* C40: for every pattern the validator accepts and every non-empty sink
\* chain, get_matching_deposit_path keeps its cursors within bounds: the
\* pattern cursor is never advanced past the end of the pattern, no wildcard
\* is read as a concrete sink, and once the sink after a repeatable wildcard
\* has been matched the scan compares no later chain element with that sink,
\* so the result is what a scan that stops at the match gives
C40_CursorsInBounds ==
    call.pc = "returned" =>
        LET raw == get_matching_deposit_path(call.restrictor, call.path, call.my_tank)
            first == call.restrictor.legal_deposit_paths[1]
            cct == IF IsSome(call.path.origin) /\ Val(call.path.origin).kind = "tank"
                   THEN Some(Val(call.path.origin).id) ELSE None
            pe == match_origin(first, call.path.origin, call.my_tank, cct)
        IN  /\ raw.kind # "ub"
            /\ raw.kind # "throw"
            /\ call.result.kind # "crash"
            /\ pe # 0 => ~scan_has_more(first, pe, call.path.sink_chain, 1, call.my_tank, cct)

====
